---- MODULE Spec2Model ----
(***************************************************************************)
(* A model of the job-listing scraper: the relevance scorer and ranker     *)
(* (scraper/parser.ts, services/job-matcher.ts), the browser-context pool  *)
(* (scrapers/playwright-manager.ts), the scraping cycle and its session    *)
(* row (scraper/automation.ts, database/repository.ts) and the scheduler   *)
(* (services/scheduler.ts).                                                *)
(*                                                                         *)
(* Conventions.  A JavaScript string is a sequence of words; toLowerCase   *)
(* works word by word and includes is the test for a contiguous run of     *)
(* words.  A JavaScript object is a function from property names; a        *)
(* property that is undefined is absent from its DOMAIN.  A call that can  *)
(* throw yields [error |-> ...] in place of [value |-> ...].  Scores are   *)
(* exact fractions, held as whole numbers of 1/ScoreDen.  Time is counted  *)
(* in hours.                                                               *)
(***************************************************************************)
EXTENDS Integers, Sequences, FiniteSets, TLC

VARIABLES
  resumeData,   \* the parsed resume.json handed to JobParser and JobMatcher
  job,          \* the JobDetails record being scored
  result,       \* what JobMatcher.scoreJob gave back (or threw)
  clock,        \* the wall clock, in hours
  jobs,         \* the batch of JobDetails handed to scoreMultipleJobs
  scoredJobs,   \* its result: the scored records, ranked
  topJobs,      \* the result of selectTopJobs
  count,        \* selectTopJobs' count argument (TOP_JOBS_COUNT)
  minScore,     \* MIN_SCORE_THRESHOLD as selectTopJobs read it
  mpc,          \* where the batch stands: input, scored, selected, threw
  browser,      \* PlaywrightManager.browser: "null" or "open"
  contexts,     \* PlaywrightManager.contexts, the contexts the manager holds
  calls,        \* the manager's calls in flight, one slot per caller
  nextCtx,      \* how many contexts the browser has handed out so far
  rpc,          \* where executeFullScrapingCycle stands
  sessionId,    \* its sessionId (0 before createSession returned)
  searchResults,\* the URLs it is working through
  fetched,      \* what became of each URL visited so far
  jobDetails,   \* the records extracted so far
  saved,        \* how many insertJobListing calls of the current loop returned
  topJobIds,    \* the ids collected for markTopPicks
  thrown,       \* the error the cycle's catch block received
  dbFault,      \* whether a store call of this cycle has failed
  sessions,     \* table scraping_sessions, row i has id i
  sessionLog,   \* per session, the statuses written to its row, in order
  job_listings, \* table job_listings, in insertion order
  job_listings_id_seq, \* the sequence behind job_listings.id
  lastWrite,    \* the latest insertJobListing call and what it returned
  task,         \* JobScrapingScheduler.task: "null" or "scheduled"
  config,       \* JobScrapingScheduler.config
  trig,         \* the trigger invocations in flight, cron and manual
  lastEnded,    \* how the run that ended most recently ended
  cronTasks,    \* how many tasks made by cron.schedule are active
  status,       \* what getStatus returned last
  dom,          \* the page handed to JobParser.extractJobDetails, as page.evaluate sees it
  details,      \* what extractJobDetails resolved to
  report,       \* what generateJobReport returned to the cycle
  feed,         \* what searchAllRoles returned to the cycle, in order
  roleResults,  \* what searchJobsForRole gave for each role: a list or an error
  reply,        \* the latest HTTP response of the Gemini API
  cache,        \* the Redis entry under the key of this résumé and record
  llmResult,    \* what the LLM-backed JobMatcher.scoreJob resolved to
  llmCalls,     \* how many times it has been called
  geminiCalls   \* how many times it has called GeminiClient.scoreJob

scoreVars == <<resumeData, job, result, clock>>
matchVars == <<jobs, scoredJobs, topJobs, count, minScore, mpc>>
poolVars == <<browser, contexts, calls, nextCtx>>
runVars == <<rpc, sessionId, searchResults, fetched, jobDetails, saved, topJobIds,
             thrown, dbFault, report, feed, roleResults>>
dbVars == <<sessions, sessionLog, job_listings, job_listings_id_seq, lastWrite>>
schedVars == <<task, config, trig, lastEnded, cronTasks, status>>
parseVars == <<dom, details>>
llmVars == <<reply, cache, llmResult, llmCalls, geminiCalls>>
vars == <<scoreVars, matchVars, poolVars, runVars, dbVars, schedVars, parseVars, llmVars>>

----------------------------------------------------------------------------
(* Bounds *)

MaxTech == 2        \* longest tech_stack list of a job record
MaxJobs == 3        \* largest batch handed to scoreMultipleJobs
MaxCount == 3       \* largest count handed to selectTopJobs
MaxCallers == 4     \* callers of the context pool that can overlap
MaxContexts == 5    \* contexts the browser hands out in one pool behaviour
MaxFeed == 4        \* longest list of URLs a search returns
MaxWrites == 4      \* insertJobListing calls in one store behaviour
MaxDay == 3         \* last day of the calendar the scheduler is followed over
MaxSessions == 2    \* runs the scheduler starts in one behaviour
MaxLlmCalls == 2    \* calls of the LLM-backed scoreJob for one résumé and record
MaxTasks == 3       \* cron tasks the scheduler makes in one behaviour
MaxHits == 2        \* most results the search of one role returns

(* Defaults the program reads from its configuration *)
maxConcurrency == 3
intervalDays == 3
TOP_JOBS_COUNT == 5
BatchLimit == 50

----------------------------------------------------------------------------
(* JavaScript values *)

NoFields == [k \in {} |-> 0]

Has(o, k) == k \in DOMAIN o

restrict(o, keys) == [k \in (DOMAIN o) \cap keys |-> o[k]]

Val(v) == [value |-> v]
Null == [null |-> TRUE]
TypeError(what) == [error |-> "TypeError", message |-> what]
Threw(r) == Has(r, "error")

HoursPerDay == 24

Max2(a, b) == IF a >= b THEN a ELSE b
Min2(a, b) == IF a <= b THEN a ELSE b

RECURSIVE Gcd(_, _)
Gcd(a, b) == IF b = 0 THEN a ELSE Gcd(b, a % b)

RECURSIVE LcmUpTo(_)
LcmUpTo(n) == IF n <= 1 THEN 1 ELSE (LcmUpTo(n - 1) * n) \div Gcd(LcmUpTo(n - 1), n)

(* String.prototype.toLowerCase, word by word, over the words the model uses *)
LowerWord(w) ==
  CASE w = "Senior" -> "senior"
    [] w = "Backend" -> "backend"
    [] w = "Engineer" -> "engineer"
    [] w = "Full" -> "full"
    [] w = "Stack" -> "stack"
    [] w = "Developer" -> "developer"
    [] w = "Software" -> "software"
    [] w = "Chef" -> "chef"
    [] w = "Remote" -> "remote"
    [] w = "Bangalore" -> "bangalore"
    [] w = "Berlin" -> "berlin"
    [] w = "Work" -> "work"
    [] w = "From" -> "from"
    [] w = "Home" -> "home"
    [] w = "React" -> "react"
    [] w = "REACT" -> "react"
    [] w = "Python" -> "python"
    [] w = "SQL" -> "sql"
    [] w = "Startup" -> "startup"
    [] w = "Docker" -> "docker"
    [] w = "Posted" -> "posted"
    [] w = "Requirements:" -> "requirements:"
    [] w = "Days" -> "days"
    [] w = "Score:" -> "score:"
    [] w = "SCORE:" -> "score:"
    [] w = "Reasons:" -> "reasons:"
    [] w = "Reason:" -> "reason:"
    [] OTHER -> w

toLowerCase(s) == [i \in 1..Len(s) |-> LowerWord(s[i])]

(* String.prototype.includes *)
includes(s, t) ==
  \E i \in 0..(Len(s) - Len(t)) : \A j \in 1..Len(t) : s[i + j] = t[j]

(* Array.prototype.filter *)
filter(xs, keep(_)) == SelectSeq(xs, keep)

(* Array.prototype.slice(0, n), n >= 0 *)
slice0(xs, n) == SubSeq(xs, 1, Min2(n, Len(xs)))

some(xs, p(_)) == \E i \in 1..Len(xs) : p(xs[i])

(* [...new Set(xs)]: the first occurrence of every element, in order *)
unique(xs) ==
  LET firsts == {i \in 1..Len(xs) : \A h \in 1..(i - 1) : xs[h] # xs[i]}
  IN [k \in 1..Cardinality(firsts) |->
        xs[CHOOSE i \in firsts : Cardinality({h \in firsts : h < i}) = k - 1]]

(* const x = v; return F(x): v is evaluated once *)
bind(v, F(_)) == CHOOSE r \in {F(x) : x \in {v}} : TRUE

----------------------------------------------------------------------------
(* scraper/parser.ts: JobParser scoring.  Sub-scores are points out of 100 *)
(* held as whole numbers of 1/TechDen points, so that matches / max(...)   *)
(* is exact; the score is a whole number of 1/ScoreDen.                    *)

TechDen == LcmUpTo(MaxTech)
ScoreDen == 1000 * TechDen

techEquals(a, b) == toLowerCase(a) = toLowerCase(b)

calculateTechStackScore(resume, jobTechStack) ==
  IF Len(jobTechStack) = 0 THEN Val(0)
  ELSE IF ~Has(resume, "data") THEN TypeError("data.tech_stack")
  ELSE LET userTechStack == resume.data.tech_stack
           matches == filter(jobTechStack,
                        LAMBDA tech : some(userTechStack,
                                        LAMBDA userTech : techEquals(userTech, tech)))
       IN  Val((Len(matches) * 100 * TechDen)
                 \div Max2(Len(jobTechStack), Len(userTechStack)))

keywords ==
  << <<"developer">>, <<"engineer">>, <<"software">>, <<"full", "stack">>,
     <<"backend">>, <<"frontend">> >>

calculateTitleScore(resume, title) ==
  IF ~Has(resume, "data") THEN TypeError("data.roles")
  ELSE LET userRoles == resume.data.roles
           titleLower == toLowerCase(title)
       IN  IF some(userRoles, LAMBDA role : includes(titleLower, toLowerCase(role)))
           THEN Val(100 * TechDen)
           ELSE LET matches == filter(keywords, LAMBDA keyword : includes(titleLower, keyword))
                IN  Val((Len(matches) * 60 * TechDen) \div Len(keywords))

isRemote(locationLower) ==
  \/ includes(locationLower, <<"remote">>)
  \/ includes(locationLower, <<"work", "from", "home">>)

calculateLocationScore(resume, location) ==
  IF ~Has(resume, "data") THEN TypeError("data.location")
  ELSE LET userLocations == resume.data.location
           locationLower == toLowerCase(location)
       IN  IF some(userLocations,
                   LAMBDA userLocation : includes(locationLower, toLowerCase(userLocation)))
           THEN Val(100 * TechDen)
           ELSE IF isRemote(locationLower) THEN Val(100 * TechDen) ELSE Val(0)

(* A Date is [valid, t]: an Invalid Date has getTime() = NaN, and every    *)
(* comparison with NaN is false.                                            *)
recencyBand(daysDiff) ==
  IF daysDiff <= 1 THEN 100
  ELSE IF daysDiff <= 3 THEN 80
  ELSE IF daysDiff <= 7 THEN 60
  ELSE IF daysDiff <= 14 THEN 40
  ELSE IF daysDiff <= 30 THEN 20
  ELSE 0

calculateRecencyScore(j, now) ==
  IF ~Has(j, "posted_date") THEN 50 * TechDen
  ELSE IF ~j.posted_date.valid THEN 0
  ELSE recencyBand((now - j.posted_date.t) \div HoursPerDay) * TechDen

orEmpty(o, k) == IF Has(o, k) THEN o[k] ELSE <<>>

maxScore == 100

calculateJobScore(resume, j, now) ==
  LET techStackScore == calculateTechStackScore(resume, orEmpty(j, "tech_stack"))
      titleScore == calculateTitleScore(resume, j.title)
      locationScore == calculateLocationScore(resume, orEmpty(j, "location"))
      recencyScore == calculateRecencyScore(j, now)
  IN  IF Threw(techStackScore) THEN techStackScore
      ELSE IF Threw(titleScore) THEN titleScore
      ELSE IF Threw(locationScore) THEN locationScore
      ELSE Val(Min2(4 * techStackScore.value + 3 * titleScore.value
                      + 2 * locationScore.value + recencyScore,
                    10 * maxScore * TechDen))

(* (score * 100).toFixed(0), and the rounding of DECIMAL(3,2): hundredths *)
hundredths(score) == (score * 100 + (ScoreDen \div 2)) \div ScoreDen


----------------------------------------------------------------------------
(* services/job-matcher.ts: JobMatcher *)

daysSince(date, now) == (now - date.t) \div HoursPerDay

(* a variant that adds the "..." from three matches on *)
techReason_DotsAtThree(resume, j) ==
  LET techMatches == filter(orEmpty(j, "tech_stack"),
                       LAMBDA tech : some(resume.candidate.tech_stack,
                                       LAMBDA userTech : techEquals(userTech, tech)))
  IN  IF Len(techMatches) > 0
      THEN << [kind |-> "Tech stack match", techs |-> slice0(techMatches, 3),
               dots |-> Len(techMatches) >= 3] >>
      ELSE <<>>

techReason(resume, j) ==
  LET techMatches == filter(orEmpty(j, "tech_stack"),
                       LAMBDA tech : some(resume.candidate.tech_stack,
                                       LAMBDA userTech : techEquals(userTech, tech)))
  IN  IF Len(techMatches) > 0
      THEN << [kind |-> "Tech stack match", techs |-> slice0(techMatches, 3),
               dots |-> Len(techMatches) > 3] >>
      ELSE <<>>

roleReason(resume, j) ==
  LET titleLower == toLowerCase(j.title)
      roleMatches == filter(resume.candidate.roles,
                       LAMBDA role : includes(titleLower, toLowerCase(role)))
  IN  IF Len(roleMatches) > 0
      THEN << [kind |-> "Role match", role |-> roleMatches[1]] >>
      ELSE <<>>

locationReason(resume, j) ==
  LET locationLower == toLowerCase(orEmpty(j, "location"))
      locationMatches == filter(resume.candidate.location,
                           LAMBDA loc : includes(locationLower, toLowerCase(loc)))
  IN  IF Len(locationMatches) > 0
      THEN << [kind |-> "Location match", loc |-> locationMatches[1]] >>
      ELSE IF isRemote(locationLower) THEN << [kind |-> "Remote work available"] >>
      ELSE <<>>

recencyReason(j, now) ==
  IF Has(j, "posted_date") /\ j.posted_date.valid
  THEN IF daysSince(j.posted_date, now) <= 1 THEN << [kind |-> "Posted today"] >>
       ELSE IF daysSince(j.posted_date, now) <= 3 THEN << [kind |-> "Recently posted"] >>
       ELSE <<>>
  ELSE <<>>

(* `${description} ${requirements}` *)
fullTextOf(j) ==
  toLowerCase(orEmpty(j, "description")) \o toLowerCase(orEmpty(j, "requirements"))

seniorityReason(resume, j) ==
  IF includes(fullTextOf(j), <<"senior">>) /\ resume.candidate.experience_years >= 5
  THEN << [kind |-> "Senior level match"] >>
  ELSE IF includes(fullTextOf(j), <<"mid-level">>) /\ resume.candidate.experience_years >= 3
  THEN << [kind |-> "Mid-level match"] >>
  ELSE <<>>

salaryReason(j) ==
  IF Has(j, "salary_range") /\ j.salary_range # <<>>
  THEN << [kind |-> "Salary information available"] >>
  ELSE <<>>

startupReason(j) ==
  IF includes(fullTextOf(j), <<"startup">>) \/ includes(fullTextOf(j), <<"early", "stage">>)
  THEN << [kind |-> "Startup opportunity"] >>
  ELSE <<>>

generateMatchReasons(resume, j, score, now) ==
  IF ~Has(resume, "candidate") THEN TypeError("candidate.roles")
  ELSE LET reasons == techReason(resume, j) \o roleReason(resume, j)
                        \o locationReason(resume, j) \o recencyReason(j, now)
                        \o seniorityReason(resume, j) \o salaryReason(j)
                        \o startupReason(j)
       IN  IF Len(reasons) = 0
           THEN Val(<< [kind |-> "Overall match score", percent |-> hundredths(score)] >>)
           ELSE Val(reasons)

scoreJob(resume, j, now) ==
  LET score == calculateJobScore(resume, j, now)
  IN  IF Threw(score) THEN score
      ELSE LET matchReasons == generateMatchReasons(resume, j, score.value, now)
           IN  IF Threw(matchReasons) THEN matchReasons
               ELSE Val(j @@ [score |-> score.value, matchReasons |-> matchReasons.value])


(* Array.prototype.sort((a, b) => b.score - a.score): the sort is stable,  *)
(* so a record goes behind every record of a higher score and every        *)
(* earlier record of the same score.                                       *)
rankOf(xs, i) ==
  1 + Cardinality({k \in 1..Len(xs) :
                     \/ xs[k].score > xs[i].score
                     \/ (xs[k].score = xs[i].score /\ k < i)})

sortByScoreDesc(xs) ==
  [p \in 1..Len(xs) |-> xs[CHOOSE i \in 1..Len(xs) : rankOf(xs, i) = p]]

rankScored(each) ==
  IF \E i \in 1..Len(each) : Threw(each[i])
  THEN each[CHOOSE i \in 1..Len(each) :
              Threw(each[i]) /\ \A k \in 1..(i - 1) : ~Threw(each[k])]
  ELSE Val(sortByScoreDesc([i \in 1..Len(each) |-> each[i].value]))

scoreMultipleJobs(resume, batch, now) ==
  bind([i \in 1..Len(batch) |-> scoreJob(resume, batch[i], now)], rankScored)

selectTopJobs_NoFilter(scored, n, threshold) == slice0(scored, n)

selectTopJobs_NoFallback(scored, n, threshold) ==
  slice0(filter(scored, LAMBDA j : j.score >= threshold), n)

selectTopJobs(scored, n, threshold) ==
  LET qualifiedJobs == filter(scored, LAMBDA j : j.score >= threshold)
  IN  IF Len(qualifiedJobs) = 0 THEN slice0(scored, n)
      ELSE slice0(qualifiedJobs, n)

(* the keys a report lists of each tally: slice(0, 10) *)
ReportListed == 10

(* scoredJobs.reduce((sum, job) => sum + job.score, 0) *)
RECURSIVE sumOfScores(_, _)
sumOfScores(scored, i) ==
  IF i > Len(scored) THEN 0 ELSE scored[i].score + sumOfScores(scored, i + 1)

(* Object.entries of a tally, largest count first, ties in the order the *)
(* keys were first seen, the first ReportListed keys                    *)
topKeys(mentions) ==
  LET ks == unique(mentions)
      tally == [i \in 1..Len(ks) |->
                  [key |-> ks[i],
                   score |-> Cardinality({m \in 1..Len(mentions) : mentions[m] = ks[i]})]]
      sorted == slice0(sortByScoreDesc(tally), ReportListed)
  IN [i \in 1..Len(sorted) |-> sorted[i].key]

RECURSIVE techMentions(_, _)
techMentions(scored, i) ==
  IF i > Len(scored) THEN <<>>
  ELSE orEmpty(scored[i], "tech_stack") \o techMentions(scored, i + 1)

(* job.location || "Unknown" *)
locationKey(j) == IF orEmpty(j, "location") = <<>> THEN <<"Unknown">> ELSE j.location

(* a variant whose good band has no upper edge *)
scoreBands_OpenGood(scored) ==
  [excellent |-> Len(filter(scored, LAMBDA j : 10 * j.score > 8 * ScoreDen)),
   good |-> Len(filter(scored, LAMBDA j : 10 * j.score > 6 * ScoreDen)),
   fair |-> Len(filter(scored, LAMBDA j : 10 * j.score > 4 * ScoreDen
                                           /\ 10 * j.score <= 6 * ScoreDen)),
   poor |-> Len(filter(scored, LAMBDA j : 10 * j.score <= 4 * ScoreDen))]

(* const scoreDistribution = {...}: the four filters over the list *)
scoreBands(scored) ==
  [excellent |-> Len(filter(scored, LAMBDA j : 10 * j.score > 8 * ScoreDen)),
   good |-> Len(filter(scored, LAMBDA j : 10 * j.score > 6 * ScoreDen
                                           /\ 10 * j.score <= 8 * ScoreDen)),
   fair |-> Len(filter(scored, LAMBDA j : 10 * j.score > 4 * ScoreDen
                                           /\ 10 * j.score <= 6 * ScoreDen)),
   poor |-> Len(filter(scored, LAMBDA j : 10 * j.score <= 4 * ScoreDen))]

AverageDen == LcmUpTo(Max2(MaxJobs, MaxFeed) + 1)

(* averageScore is a whole number of 1/(ScoreDen * AverageDen) *)
generateJobReport(scored) ==
  IF Len(scored) = 0
  THEN [totalJobs |-> 0,
        averageScore |-> 0,
        topTechStack |-> <<>>,
        topCompanies |-> <<>>,
        locationDistribution |-> NoFields,
        scoreDistribution |-> [excellent |-> 0, good |-> 0, fair |-> 0, poor |-> 0]]
  ELSE [totalJobs |-> Len(scored),
        averageScore |-> (sumOfScores(scored, 1) * AverageDen) \div Len(scored),
        topTechStack |-> topKeys(techMentions(scored, 1)),
        topCompanies |-> topKeys([i \in 1..Len(scored) |-> scored[i].company]),
        locationDistribution |->
          [l \in {locationKey(scored[i]) : i \in 1..Len(scored)} |->
             Cardinality({i \in 1..Len(scored) : locationKey(scored[i]) = l})],
        scoreDistribution |-> scoreBands(scored)]

----------------------------------------------------------------------------
(* Inputs of the scorer: résumé objects and job records *)

RichBody ==
  [roles |-> << <<"Backend", "Engineer">>, <<"Full", "Stack", "Developer">> >>,
   tech_stack |-> << <<"React">>, <<"Python">> >>,
   location |-> << <<"Bangalore">> >>,
   experience_years |-> 5]

EmptyBody ==
  [roles |-> <<>>, tech_stack |-> <<>>, location |-> <<>>, experience_years |-> 0]

Bodies == {RichBody, EmptyBody}

(* resume.json as parsed.  database/models.ts declares ResumeData with the *)
(* one key candidate; JobParser and GoogleJobSearcher read the key data,   *)
(* which the file may or may not carry as well.                            *)
Resumes ==
  {[candidate |-> c] @@ d :
     c \in Bodies,
     d \in {NoFields} \cup {[data |-> b] : b \in Bodies}}

TechNames == {<<"react">>, <<"Python">>, <<"SQL">>}

SeqsUpTo(S, n) == UNION {[1..k -> S] : k \in 0..n}

Titles ==
  {<<"Senior", "Backend", "Engineer">>, <<"Full", "Stack", "Developer">>,
   <<"software", "engineer">>, <<"Chef">>}

Locations == {<<>>, <<"Remote">>, <<"Bangalore">>, <<"Berlin">>}

Date(t) == [valid |-> TRUE, t |-> t]
InvalidDate == [valid |-> FALSE, t |-> 0]

(* hours between the posting and the clock *)
Ages == {0, 48, 96, 192, 360, 744}

Extras ==
  {NoFields,
   [description |-> <<"senior", "role", "at", "a", "Startup">>],
   [description |-> <<"mid-level", "role">>, salary_range |-> <<"10-20", "LPA">>],
   [description |-> <<>>, requirements |-> <<"early", "stage">>]}

(* records listing more technologies than MaxTech, three and four of them *)
(* in the profile                                                          *)
LongTechStacks ==
  {<< <<"react">>, <<"SQL">>, <<"Python">>, <<"React">> >>,
   << <<"react">>, <<"SQL">>, <<"Python">>, <<"React">>, <<"python">> >>}

JobRecords(now) ==
  {[title |-> t, company |-> <<"Acme">>, job_url |-> "u1"] @@ ts @@ l @@ p @@ x :
     t \in Titles,
     ts \in {NoFields}
              \cup {[tech_stack |-> q] : q \in SeqsUpTo(TechNames, MaxTech) \cup LongTechStacks},
     l \in {NoFields} \cup {[location |-> q] : q \in Locations},
     p \in {NoFields, [posted_date |-> InvalidDate]}
             \cup {[posted_date |-> Date(now - a)] : a \in Ages},
     x \in Extras}

Pending == [status |-> "pending"]

----------------------------------------------------------------------------
(* The parts of the program a specification leaves untouched stay as the   *)
(* constructors leave them.                                                *)

Callers == 1..MaxCallers
Slots == {"cron", "manual"}

NoError == NoFields
NoWrite == [status |-> "none"]
Idle == [pc |-> "idle"]

NoBatch ==
  /\ jobs = <<>>
  /\ scoredJobs = <<>>
  /\ topJobs = <<>>
  /\ count = 0
  /\ minScore = 0
  /\ mpc = "input"

NoPool ==
  /\ browser = "null"
  /\ contexts = <<>>
  /\ calls = [c \in Callers |-> Idle]
  /\ nextCtx = 0

NoRun ==
  /\ rpc = "idle"
  /\ sessionId = 0
  /\ searchResults = <<>>
  /\ fetched = <<>>
  /\ jobDetails = <<>>
  /\ saved = 0
  /\ topJobIds = <<>>
  /\ thrown = NoError
  /\ dbFault = FALSE
  /\ report = Pending
  /\ feed = <<>>
  /\ roleResults = <<>>

NoStore ==
  /\ sessions = <<>>
  /\ sessionLog = <<>>
  /\ job_listings = <<>>
  /\ job_listings_id_seq = 0
  /\ lastWrite = NoWrite

NoParse ==
  /\ dom = NoFields
  /\ details = Pending

NoLlm ==
  /\ reply = NoFields
  /\ cache = Null
  /\ llmResult = Pending
  /\ llmCalls = 0
  /\ geminiCalls = 0

NoScheduler ==
  /\ task = "null"
  /\ config = [intervalDays |-> intervalDays, enabled |-> TRUE]
  /\ trig = [s \in Slots |-> Idle]
  /\ lastEnded = "none"
  /\ cronTasks = 0
  /\ status = Pending

----------------------------------------------------------------------------
(* Scoring one record: JobMatcher.scoreJob applied to any résumé and record *)

InitScore ==
  /\ clock = 0
  /\ resumeData \in Resumes
  /\ job \in JobRecords(0)
  /\ result = Pending
  /\ NoBatch
  /\ NoPool
  /\ NoRun
  /\ NoStore
  /\ NoScheduler
  /\ NoParse
  /\ NoLlm

ScoreJob ==
  /\ result = Pending
  /\ result' = scoreJob(resumeData, job, clock)
  /\ UNCHANGED <<resumeData, job, clock, matchVars, poolVars, runVars, dbVars, schedVars, parseVars, llmVars>>

NextScore == ScoreJob

SpecScore == InitScore /\ [][NextScore]_vars

Scored == result # Pending

(* C1: for every résumé and every job record, scoring returns without      *)
(* raising, and the score is a number within [0,1].                        *)
C1_ScoreDefinedInRange ==
  Scored => /\ ~Threw(result)
            /\ result.value.score \in 0..ScoreDen

FallbackKind == "Overall match score"

(* the reasons the specific rules give for the record being scored *)
specificReasons ==
  techReason(resumeData, job) \o roleReason(resumeData, job)
    \o locationReason(resumeData, job) \o recencyReason(job, clock)
    \o seniorityReason(resumeData, job) \o salaryReason(job) \o startupReason(job)

(* C13: scoreJob returns, for every record and résumé, a matchReasons     *)
(* list that is not empty; when no specific rule fires the list is the    *)
(* one fallback reason, carrying the score as a percentage, and otherwise *)
(* it holds no fallback reason.                                           *)
C13_ReasonsNeverEmpty ==
  Scored
    => /\ ~Threw(result)
       /\ Len(result.value.matchReasons) >= 1
       /\ IF specificReasons = <<>>
          THEN result.value.matchReasons
                 = << [kind |-> FallbackKind, percent |-> hundredths(result.value.score)] >>
          ELSE \A i \in 1..Len(result.value.matchReasons) :
                 result.value.matchReasons[i].kind # FallbackKind

(* the profile a résumé describes: the object under data where the file *)
(* has that key, under candidate otherwise                              *)
profile == IF Has(resumeData, "data") THEN resumeData.data ELSE resumeData.candidate

matchesAllFour ==
  /\ some(profile.roles, LAMBDA role : includes(toLowerCase(job.title), toLowerCase(role)))
  /\ Has(job, "tech_stack")
  /\ Len(job.tech_stack) >= Max2(1, Len(profile.tech_stack))
  /\ \A i \in 1..Len(job.tech_stack) :
       some(profile.tech_stack, LAMBDA userTech : techEquals(userTech, job.tech_stack[i]))
  /\ Has(job, "location")
  /\ isRemote(toLowerCase(job.location))
  /\ Has(job, "posted_date")
  /\ job.posted_date = Date(clock)

matchesNothing ==
  /\ orEmpty(job, "tech_stack") = <<>>
  /\ ~some(profile.roles, LAMBDA role : includes(toLowerCase(job.title), toLowerCase(role)))
  /\ ~some(keywords, LAMBDA keyword : includes(toLowerCase(job.title), keyword))
  /\ orEmpty(job, "location") = <<>>
  /\ ~Has(job, "posted_date")

(* C16: the score is (0.40 tech + 0.30 title + 0.20 location + 0.10       *)
(* recency) / 100 with every sub-score within [0,100]; a record matching  *)
(* on all four dimensions scores 1.0 and a record matching on none, with  *)
(* an unknown date, scores 0.05.                                          *)
C16_WeightedSum ==
  Scored
    => /\ ~Threw(result)
       /\ \E tech \in {calculateTechStackScore(resumeData, orEmpty(job, "tech_stack"))},
             title \in {calculateTitleScore(resumeData, job.title)},
             location \in {calculateLocationScore(resumeData, orEmpty(job, "location"))},
             recency \in {calculateRecencyScore(job, clock)} :
            /\ ~Threw(tech) /\ ~Threw(title) /\ ~Threw(location)
            /\ {tech.value, title.value, location.value, recency} \subseteq 0..(100 * TechDen)
            /\ result.value.score
                 = 4 * tech.value + 3 * title.value + 2 * location.value + recency
       /\ matchesAllFour => result.value.score = ScoreDen
       /\ matchesNothing => 20 * result.value.score = ScoreDen

(* a technology list with every name in lower case *)
lowerAll(techs) == [i \in DOMAIN techs |-> toLowerCase(techs[i])]

(* the technologies of the record equal, ignoring case, to one of the profile *)
matched(userTechs, jobTechs) ==
  {i \in 1..Len(jobTechs) :
     \E k \in 1..Len(userTechs) : toLowerCase(userTechs[k]) = toLowerCase(jobTechs[i])}

withTechStack(resume, techs) ==
  IF Has(resume, "data")
  THEN [resume EXCEPT !.data.tech_stack = techs]
  ELSE [resume EXCEPT !.candidate.tech_stack = techs]

(* C27: the tech-overlap sub-score of a scored record is 100 * (matched   *)
(* technologies of the record) / max(|record's|, |profile's|), 0 when the *)
(* record lists none, and is the same when the names of the record, of    *)
(* the profile or of both are written in lower case.                      *)
C27_TechOverlap ==
  Scored
    => \E jobTech \in {orEmpty(job, "tech_stack")}, userTech \in {profile.tech_stack} :
         \E tech \in {calculateTechStackScore(resumeData, jobTech)} :
           /\ ~Threw(tech)
           /\ tech.value
                = IF jobTech = <<>> THEN 0
                  ELSE (100 * TechDen * Cardinality(matched(userTech, jobTech)))
                         \div Max2(Len(jobTech), Len(userTech))
           /\ \A r \in {resumeData, withTechStack(resumeData, lowerAll(userTech))},
                 t \in {jobTech, lowerAll(jobTech)} :
                calculateTechStackScore(r, t) = tech

(* the rule a reason comes from, in the order the rules are evaluated *)
ruleOf(kind) ==
  CASE kind = "Tech stack match" -> 1
    [] kind = "Role match" -> 2
    [] kind \in {"Location match", "Remote work available"} -> 3
    [] kind \in {"Posted today", "Recently posted"} -> 4
    [] kind \in {"Senior level match", "Mid-level match"} -> 5
    [] kind = "Salary information available" -> 6
    [] kind = "Startup opportunity" -> 7
    [] OTHER -> 0

(* the first n technologies of the record that the candidate lists too *)
firstMatched(userTechs, jobTechs, n) ==
  LET m == matched(userTechs, jobTechs)
  IN  [p \in 1..Min2(n, Cardinality(m)) |->
         jobTechs[CHOOSE i \in m : Cardinality({k \in m : k < i}) = p - 1]]

(* C28: the reasons of a scored record follow the order of the rules     *)
(* (tech, role, location or remote, recency, seniority, salary, startup) *)
(* with at most one reason a rule; the tech reason lists the first three *)
(* matched technologies at most, with "..." exactly when more than three *)
(* matched; the fallback reason is there exactly when no rule fired, and *)
(* then alone.                                                           *)
C28_ReasonsInRuleOrder ==
  (Scored /\ ~Threw(result))
    => \E rs \in {result.value.matchReasons},
          jobTech \in {orEmpty(job, "tech_stack")},
          userTech \in {resumeData.candidate.tech_stack} :
         /\ \A i, k \in 1..Len(rs) : i < k => ruleOf(rs[i].kind) < ruleOf(rs[k].kind)
         /\ (\E i \in 1..Len(rs) : rs[i].kind = "Tech stack match")
              = (matched(userTech, jobTech) # {})
         /\ \A i \in 1..Len(rs) :
              rs[i].kind = "Tech stack match"
                => /\ rs[i].techs = firstMatched(userTech, jobTech, 3)
                   /\ Len(rs[i].techs) <= 3
                   /\ rs[i].dots = (Cardinality(matched(userTech, jobTech)) > 3)
         /\ (\E i \in 1..Len(rs) : rs[i].kind = FallbackKind) = (specificReasons = <<>>)
         /\ (\E i \in 1..Len(rs) : rs[i].kind = FallbackKind) => Len(rs) = 1
         /\ specificReasons # <<>> => rs = specificReasons

(* a record with four matched technologies and reasons from four rules *)
C28_Witness ==
  /\ Scored
  /\ ~Threw(result)
  /\ Len(result.value.matchReasons) >= 4
  /\ result.value.matchReasons[1].kind = "Tech stack match"
  /\ result.value.matchReasons[1].dots
  /\ Len(result.value.matchReasons[1].techs) = 3
  /\ Cardinality(matched(resumeData.candidate.tech_stack, orEmpty(job, "tech_stack"))) = 4


----------------------------------------------------------------------------
(* Ranking a batch: scoreMultipleJobs, then selectTopJobs *)

BatchPool ==
  {[title |-> <<"Senior", "Backend", "Engineer">>, company |-> <<"Acme">>, job_url |-> "u1",
    tech_stack |-> << <<"react">>, <<"Python">> >>, location |-> <<"Remote">>,
    posted_date |-> Date(0)],
   [title |-> <<"Chef">>, company |-> <<"Bistro">>, job_url |-> "u2"],
   [title |-> <<"software", "engineer">>, company |-> <<"Acme">>, job_url |-> "u3",
    tech_stack |-> << <<"SQL">> >>, location |-> <<"Berlin">>, posted_date |-> Date(-96)],
   [title |-> <<"software", "engineer">>, company |-> <<"Initech">>, job_url |-> "u4",
    tech_stack |-> << <<"SQL">> >>, location |-> <<"Berlin">>, posted_date |-> Date(-96)],
   [title |-> <<"Full", "Stack", "Developer">>, company |-> <<"Initech">>, job_url |-> "u5",
    tech_stack |-> << <<"react">> >>, location |-> <<"Bangalore">>,
    salary_range |-> <<"10-20", "LPA">>]}

(* parseFloat(MIN_SCORE_THRESHOLD || "0.3"): the default and two others *)
MinScores == {0, (3 * ScoreDen) \div 10, (8 * ScoreDen) \div 10}

InitMatch ==
  /\ clock = 0
  /\ resumeData \in Resumes
  /\ job = NoFields
  /\ result = Pending
  /\ jobs \in SeqsUpTo(BatchPool, MaxJobs)
  /\ scoredJobs = <<>>
  /\ topJobs = <<>>
  /\ count = 0
  /\ minScore = 0
  /\ mpc = "input"
  /\ NoPool
  /\ NoRun
  /\ NoStore
  /\ NoScheduler
  /\ NoParse
  /\ NoLlm

ScoreMultipleJobs ==
  /\ mpc = "input"
  /\ \E r \in {scoreMultipleJobs(resumeData, jobs, clock)} :
         IF Threw(r)
         THEN /\ mpc' = "threw"
              /\ result' = r
              /\ UNCHANGED scoredJobs
         ELSE /\ mpc' = "scored"
              /\ scoredJobs' = r.value
              /\ UNCHANGED result
  /\ UNCHANGED <<resumeData, job, clock, jobs, topJobs, count, minScore>>
  /\ UNCHANGED <<poolVars, runVars, dbVars, schedVars, parseVars, llmVars>>

SelectTopJobs ==
  /\ mpc = "scored"
  /\ \E n \in 0..MaxCount, threshold \in MinScores :
       /\ count' = n
       /\ minScore' = threshold
       /\ topJobs' = selectTopJobs(scoredJobs, n, threshold)
  /\ mpc' = "selected"
  /\ UNCHANGED <<scoreVars, jobs, scoredJobs, poolVars, runVars, dbVars, schedVars, parseVars, llmVars>>

NextMatch == ScoreMultipleJobs \/ SelectTopJobs

SpecMatch == InitMatch /\ [][NextMatch]_vars

sortedDesc(xs) == \A i \in 1..(Len(xs) - 1) : xs[i].score >= xs[i + 1].score

qualifies(i) == scoredJobs[i].score >= minScore

(* C10: when the ranked list holds a record at or above the threshold, the *)
(* selection is the first count records of those at or above it, in ranked *)
(* order: the k-th selected record is the k-th qualifying record, none     *)
(* below the threshold, at most count of them, all of them when fewer      *)
(* qualify.                                                                *)
C10_SelectQualifiedPrefix ==
  (mpc = "selected" /\ sortedDesc(scoredJobs) /\ \E i \in 1..Len(scoredJobs) : qualifies(i))
    => /\ Len(topJobs)
            = Min2(count, Cardinality({i \in 1..Len(scoredJobs) : qualifies(i)}))
       /\ \A k \in 1..Len(topJobs) :
            /\ topJobs[k].score >= minScore
            /\ \E i \in 1..Len(scoredJobs) :
                 /\ qualifies(i)
                 /\ Cardinality({h \in 1..(i - 1) : qualifies(h)}) = k - 1
                 /\ topJobs[k] = scoredJobs[i]
       /\ sortedDesc(topJobs)

(* a selection that left out a ranked record below the threshold *)
C10_Witness ==
  /\ mpc = "selected"
  /\ \E i \in 1..Len(scoredJobs) : qualifies(i)
  /\ \E i \in 1..Len(scoredJobs) : ~qualifies(i) /\ i <= count
  /\ Len(topJobs) >= 1
  /\ Len(topJobs) < Len(scoredJobs)

(* C11: when the ranked list is not empty and holds no record at or above *)
(* the threshold, the selection is the first count records of the ranked  *)
(* list itself; so, for a count of one or more, it is not empty.          *)
C11_FallbackTakesRankedPrefix ==
  (mpc = "selected" /\ Len(scoredJobs) > 0 /\ \A i \in 1..Len(scoredJobs) : ~qualifies(i))
    => /\ topJobs = SubSeq(scoredJobs, 1, Min2(count, Len(scoredJobs)))
       /\ count >= 1 => Len(topJobs) >= 1

(* a selection from two or more ranked records, all below the threshold *)
C11_Witness ==
  /\ mpc = "selected"
  /\ Len(scoredJobs) >= 2
  /\ \A i \in 1..Len(scoredJobs) : ~qualifies(i)
  /\ count >= 1
  /\ count < Len(scoredJobs)
  /\ Len(topJobs) = count

(* the ranked list holds the records of the batch, each once, by score    *)
(* from high to low, records of equal score in the order of the batch     *)
rankedStable(batch, ranked) ==
  /\ Len(ranked) = Len(batch)
  /\ \E at \in [1..Len(batch) -> 1..Len(batch)] :
       /\ \A k, l \in 1..Len(batch) : at[k] = at[l] => k = l
       /\ \A k \in 1..Len(batch) : restrict(ranked[k], DOMAIN batch[at[k]]) = batch[at[k]]
       /\ \A k, l \in 1..Len(batch) :
            k < l => \/ ranked[k].score > ranked[l].score
                     \/ ranked[k].score = ranked[l].score /\ at[k] < at[l]

(* C12: batch scoring returns one scored record per record of the batch,  *)
(* by score from high to low, records of equal score in batch order, and  *)
(* scoring the batch again gives the same list.                           *)
C12_OnePerInputStable ==
  mpc # "input"
    => /\ mpc # "threw"
       /\ rankedStable(jobs, scoredJobs)
       /\ \E again \in {scoreMultipleJobs(resumeData, jobs, clock)} :
            ~Threw(again) /\ again.value = scoredJobs


----------------------------------------------------------------------------
(* The browser-context pool: scrapers/playwright-manager.ts.  A call runs  *)
(* up to its next await in one step; calls of different callers interleave *)
(* at the awaits.                                                          *)

Error(msg) == [error |-> "Error", message |-> msg]
LimitError == Error("Maximum concurrency limit reached")

atLimit(ctxs) == Len(ctxs) >= maxConcurrency

without(ctxs, ctx) == filter(ctxs, LAMBDA c : c # ctx)

(* chromium.launch resolved or rejected *)
Initialize ==
  /\ \E launched \in BOOLEAN :
       browser' = IF launched THEN "open" ELSE browser
  /\ UNCHANGED <<contexts, calls, nextCtx>>
  /\ UNCHANGED <<scoreVars, matchVars, runVars, dbVars, schedVars, parseVars, llmVars>>

(* createContext up to `await this.browser.newContext`: the two checks *)
CreateContextBegin(c) ==
  /\ calls[c].pc = "idle"
  /\ calls' = [calls EXCEPT ![c] =
                 IF browser = "null" \/ atLimit(contexts)
                 THEN Idle                    \* threw: no browser, or the limit error
                 ELSE [pc |-> "newContext"]]
  /\ UNCHANGED <<browser, contexts, nextCtx>>
  /\ UNCHANGED <<scoreVars, matchVars, runVars, dbVars, schedVars, parseVars, llmVars>>

(* createContext from the awaits on: push and return, or rethrow *)
CreateContextEnd(c) ==
  /\ calls[c].pc = "newContext"
  /\ nextCtx < MaxContexts
  /\ \E made \in BOOLEAN :
       IF made
       THEN /\ nextCtx' = nextCtx + 1
            /\ contexts' = Append(contexts, nextCtx + 1)
       ELSE /\ UNCHANGED <<contexts, nextCtx>>
  /\ calls' = [calls EXCEPT ![c] = Idle]
  /\ UNCHANGED browser
  /\ UNCHANGED <<scoreVars, matchVars, runVars, dbVars, schedVars, parseVars, llmVars>>

(* closeContext: context.close() resolved, or rejected and only logged *)
CloseContext(c) ==
  /\ calls[c].pc = "idle"
  /\ \E ctx \in 1..nextCtx, closed \in BOOLEAN :
       contexts' = IF closed THEN without(contexts, ctx) ELSE contexts
  /\ calls' = [calls EXCEPT ![c] = Idle]
  /\ UNCHANGED <<browser, nextCtx>>
  /\ UNCHANGED <<scoreVars, matchVars, runVars, dbVars, schedVars, parseVars, llmVars>>

(* closeAll up to `await this.browser.close()` *)
CloseAllContexts(c) ==
  /\ calls[c].pc = "idle"
  /\ \E closed \in BOOLEAN :
       IF closed
       THEN /\ contexts' = <<>>
            /\ calls' = [calls EXCEPT ![c] =
                           IF browser = "null" THEN Idle ELSE [pc |-> "browserClose"]]
       ELSE /\ calls' = [calls EXCEPT ![c] = Idle]
            /\ UNCHANGED contexts
  /\ UNCHANGED <<browser, nextCtx>>
  /\ UNCHANGED <<scoreVars, matchVars, runVars, dbVars, schedVars, parseVars, llmVars>>

(* closeAll from there on *)
CloseAllBrowser(c) ==
  /\ calls[c].pc = "browserClose"
  /\ \E closed \in BOOLEAN :
       browser' = IF closed THEN "null" ELSE browser
  /\ calls' = [calls EXCEPT ![c] = Idle]
  /\ UNCHANGED <<contexts, nextCtx>>
  /\ UNCHANGED <<scoreVars, matchVars, runVars, dbVars, schedVars, parseVars, llmVars>>

InitPool ==
  /\ clock = 0
  /\ resumeData = [candidate |-> EmptyBody]
  /\ job = NoFields
  /\ result = Pending
  /\ NoBatch
  /\ NoPool
  /\ NoRun
  /\ NoStore
  /\ NoScheduler
  /\ NoParse
  /\ NoLlm

NextPool ==
  \/ Initialize
  \/ \E c \in Callers : CreateContextBegin(c)
  \/ \E c \in Callers : CreateContextEnd(c)
  \/ \E c \in Callers : CloseContext(c)
  \/ \E c \in Callers : CloseAllContexts(c)
  \/ \E c \in Callers : CloseAllBrowser(c)

SpecPool == InitPool /\ [][NextPool]_vars

(* C2: however createContext, closeContext and closeAll calls interleave,  *)
(* overlapping createContext calls included, the manager never holds more  *)
(* than maxConcurrency contexts.                                           *)
C2_PoolWithinLimit == Len(contexts) <= maxConcurrency

----------------------------------------------------------------------------
(* The store: database/repository.ts over database/init.sql.  Each call is *)
(* one statement: it returns, or it throws and leaves the tables as they   *)
(* were.                                                                   *)

DbError == Error("Connection terminated unexpectedly")

(* session_date is a DATE column: the day the clock shows *)
dayOf(now) == now \div HoursPerDay

(* INSERT INTO scraping_sessions: id from the sequence, the counters and   *)
(* started_at from the column defaults                                     *)
createSession(table, sessionData, now) ==
  Append(table,
         sessionData @@ [id |-> Len(table) + 1, total_jobs_found |-> 0,
                         top_jobs_selected |-> 0, started_at |-> now])

(* UPDATE scraping_sessions SET <the defined fields> WHERE id = sessionId *)
updateSession(table, id, updates) ==
  IF id \in 1..Len(table) /\ DOMAIN updates # {}
  THEN [table EXCEPT ![id] = updates @@ @]
  ELSE table

(* a variant that reports the selection as the total *)
completedUpdate_TopAsTotal(scored, top, now) ==
  [total_jobs_found |-> Len(top), top_jobs_selected |-> Len(top),
   status |-> "completed", completed_at |-> now]

completedUpdate(scored, top, now) ==
  [total_jobs_found |-> Len(scored), top_jobs_selected |-> Len(top),
   status |-> "completed", completed_at |-> now]

failedUpdate(err, now) ==
  [status |-> "failed", error_message |-> err.message, completed_at |-> now]

(* SELECT MAX(session_date) ... WHERE status = 'completed'; null when no   *)
(* row qualifies                                                           *)
getLastScrapingDate_AnyStatus(table) ==
  LET days == {table[i].session_date : i \in 1..Len(table)}
  IN  IF days = {} THEN [found |-> FALSE]
      ELSE [found |-> TRUE, day |-> CHOOSE d \in days : \A e \in days : e <= d]

getLastScrapingDate(table) ==
  LET days == {table[i].session_date :
                 i \in {h \in 1..Len(table) : table[h].status = "completed"}}
  IN  IF days = {} THEN [found |-> FALSE]
      ELSE [found |-> TRUE, day |-> CHOOSE d \in days : \A e \in days : e <= d]

ListingColumns ==
  {"title", "company", "company_url", "job_url", "description", "requirements",
   "tech_stack", "salary_range", "location", "posted_date", "score", "session_id"}

UpdatedOnConflict == {"title", "company", "description", "score"}

convertToJobListing(scoredJob, sid) ==
  [session_id |-> sid] @@ restrict(scoredJob, ListingColumns)

(* a listing as its columns hold it: score is DECIMAL(3,2), so it is kept  *)
(* in hundredths, rounded                                                  *)
stored(l) == [k \in DOMAIN l |-> IF k = "score" THEN hundredths(l[k]) ELSE l[k]]

insertJobListing_NoConflict(table, id, l) ==
  [table |-> Append(table, stored(l) @@ [id |-> id, is_top_pick |-> FALSE]),
   id |-> id]

(* INSERT ... ON CONFLICT (job_url) DO UPDATE SET title, company,          *)
(* description, score ... RETURNING id; id is the value drawn from the     *)
(* sequence for the row proposed for insertion                             *)
insertJobListing(table, id, l) ==
  LET hits == {i \in 1..Len(table) : table[i].job_url = l.job_url}
  IN  IF hits = {}
      THEN [table |-> Append(table, stored(l) @@ [id |-> id, is_top_pick |-> FALSE]),
            id |-> id]
      ELSE LET i == CHOOSE h \in hits : TRUE
           IN  [table |-> [table EXCEPT ![i] =
                             restrict(stored(l), UpdatedOnConflict)
                               @@ restrict(@, (DOMAIN @) \ UpdatedOnConflict)],
                id |-> table[i].id]

(* a variant that flips the flag of the rows it is given *)
markTopPicks_Toggle(table, jobIds) ==
  [i \in 1..Len(table) |->
     IF \E k \in 1..Len(jobIds) : jobIds[k] = table[i].id
     THEN [table[i] EXCEPT !.is_top_pick = ~@]
     ELSE table[i]]

(* UPDATE job_listings SET is_top_pick = TRUE WHERE id = ANY(jobIds) *)
markTopPicks(table, jobIds) ==
  [i \in 1..Len(table) |->
     IF \E k \in 1..Len(jobIds) : jobIds[k] = table[i].id
     THEN [table[i] EXCEPT !.is_top_pick = TRUE]
     ELSE table[i]]

----------------------------------------------------------------------------
(* The scraping cycle: JobScrapingAutomation.executeFullScrapingCycle.     *)
(* The cycle runs alone, so a step is one store call, one search, or one   *)
(* pass of the per-URL loop.                                               *)

RunResumes == {[candidate |-> RichBody], [candidate |-> RichBody, data |-> RichBody]}

UrlList == <<"u1", "u2", "u3", "u4", "u5">>

(* what the extractor makes of the page behind a URL *)
PageOf(url) == CHOOSE j \in BatchPool : j.job_url = url

(* how the page behind a URL behaves: it loads and carries a posting, its  *)
(* navigation fails or times out, or it loads without title or company    *)
PageStates == {"ok", "navigation error", "no title"}

NavError == Error("page.goto: Timeout 30000ms exceeded")

MIN_SCORE_THRESHOLD == (3 * ScoreDen) \div 10

(* parseInt(process.env.TOP_JOBS_COUNT || "5"): the default, and 0 and 1 *)
(* as the environment can set them                                       *)
TopCounts == {0, 1, TOP_JOBS_COUNT}

(* URLs behind which a page loads without a title, and closes cleanly: *)
(* enough of them to fill a batch                                      *)
FillerUrls ==
  <<"f01", "f02", "f03", "f04", "f05", "f06", "f07", "f08", "f09", "f10",
    "f11", "f12", "f13", "f14", "f15", "f16", "f17", "f18", "f19", "f20",
    "f21", "f22", "f23", "f24", "f25", "f26", "f27", "f28", "f29", "f30",
    "f31", "f32", "f33", "f34", "f35", "f36", "f37", "f38", "f39", "f40",
    "f41", "f42", "f43", "f44", "f45", "f46", "f47", "f48", "f49", "f50",
    "f51", "f52", "f53", "f54", "f55">>

(* the lengths of the long lists a search returns, around BatchLimit *)
LongFeeds == {BatchLimit - 1, BatchLimit, BatchLimit + 1, BatchLimit + MaxFeed}

(* what the searches can turn up: up to MaxFeed distinct URLs of postings, *)
(* or one of them followed by as many filler URLs as make a long list      *)
Feeds ==
  {SubSeq(UrlList, 1, n) : n \in 0..Min2(MaxFeed, Len(UrlList))}
    \cup {<<UrlList[1]>> \o SubSeq(FillerUrls, 1, n - 1) : n \in LongFeeds}

(* a variant without the cap *)
batchOf_All(results) == results

(* searchResults.slice(0, 50): limit to 50 jobs per session *)
batchOf(results) == slice0(results, BatchLimit)

(* a variant that keeps the last occurrence of every URL *)
uniqueResults_KeepLast(allResults) ==
  LET lasts == {i \in 1..Len(allResults) :
                  \A h \in (i + 1)..Len(allResults) : allResults[h] # allResults[i]}
  IN [k \in 1..Cardinality(lasts) |->
        allResults[CHOOSE i \in lasts : Cardinality({h \in lasts : h < i}) = k - 1]]

(* allResults.filter((result, index, self) =>                           *)
(*   index === self.findIndex((r) => r.url === result.url)); a result   *)
(* is held by its url                                                   *)
uniqueResults(allResults) == unique(allResults)

(* the loop over the roles: allResults.push(...roleResults), or the catch *)
(* block that logs the role's error and goes on                           *)
RECURSIVE allResultsOf(_, _)
allResultsOf(outcomes, n) ==
  IF n = 0 THEN <<>>
  ELSE allResultsOf(outcomes, n - 1)
         \o (IF Threw(outcomes[n]) THEN <<>> ELSE outcomes[n].value)

(* GoogleJobSearcher.searchAllRoles, outcomes[i] being what          *)
(* searchJobsForRole gives for the i-th role: its results or an error *)
searchAllRoles(resume, outcomes) ==
  IF ~Has(resume, "data") THEN TypeError("undefined is not an object (resumeData.data.roles)")
  ELSE Val(uniqueResults(allResultsOf(outcomes, Len(resume.data.roles))))

(* the outcomes when the first role turns up found and the others nothing, *)
(* or when no context is to be had and every role's search fails           *)
outcomesOf(resume, found, failing) ==
  IF ~Has(resume, "data") THEN <<>>
  ELSE [i \in 1..Len(resume.data.roles) |->
          IF failing THEN LimitError ELSE IF i = 1 THEN Val(found) ELSE Val(<<>>)]

(* the per-URL catch block: the error is logged and the loop goes on *)
onUrlError_Rethrow(err) == [rpc |-> "catch", thrown |-> err]

onUrlError(err) == [rpc |-> "fetch", thrown |-> NoError]

Ended == rpc \in {"returned", "rejected"}

CreateSession ==
  /\ rpc = "idle"
  /\ \E inserted \in BOOLEAN :
       IF inserted
       THEN /\ sessions' = createSession(sessions,
                              [session_date |-> dayOf(clock), status |-> "running"], clock)
            /\ sessionLog' = Append(sessionLog, <<"running">>)
            /\ sessionId' = Len(sessions) + 1
            /\ rpc' = "search"
            /\ thrown' = NoError
       ELSE /\ rpc' = "rejected"
            /\ thrown' = DbError
            /\ sessionId' = 0
            /\ UNCHANGED <<sessions, sessionLog>>
  /\ searchResults' = <<>>
  /\ fetched' = <<>>
  /\ jobDetails' = <<>>
  /\ scoredJobs' = <<>>
  /\ topJobs' = <<>>
  /\ saved' = 0
  /\ topJobIds' = <<>>
  /\ dbFault' = FALSE
  /\ report' = Pending
  /\ feed' = <<>>
  /\ UNCHANGED <<job_listings, job_listings_id_seq, lastWrite>>
  /\ UNCHANGED <<scoreVars, jobs, count, minScore, mpc, poolVars, schedVars, parseVars, llmVars>>
  /\ UNCHANGED roleResults

Search ==
  /\ rpc = "search"
  /\ \E found \in Feeds :
       \E r \in {searchAllRoles(resumeData, outcomesOf(resumeData, found, atLimit(contexts)))} :
         IF Threw(r)
         THEN /\ rpc' = "catch"
              /\ thrown' = r
              /\ UNCHANGED <<searchResults, browser, feed>>
         ELSE /\ rpc' = "fetch"
              /\ feed' = r.value
              /\ searchResults' = batchOf(r.value)
              /\ browser' = IF Len(resumeData.data.roles) > 0 THEN "open" ELSE browser
              /\ UNCHANGED thrown
  /\ UNCHANGED <<sessionId, fetched, jobDetails, saved, topJobIds, dbFault, report>>
  /\ UNCHANGED <<contexts, calls, nextCtx>>
  /\ UNCHANGED <<scoreVars, matchVars, dbVars, schedVars, parseVars, llmVars>>
  /\ UNCHANGED roleResults

(* one pass of the loop over searchResults *)
FetchOne ==
  /\ rpc = "fetch"
  /\ Len(fetched) < Len(searchResults)
  /\ \E page \in PageStates, closed \in BOOLEAN :
       LET url == searchResults[Len(fetched) + 1]
           filler == \E k \in 1..Len(FillerUrls) : FillerUrls[k] = url
           visit(outcome) == Append(fetched, [url |-> url, page |-> page, outcome |-> outcome])
           held == IF closed THEN contexts ELSE Append(contexts, nextCtx + 1)
       IN  /\ filler => (page = "no title" /\ closed)
           /\ IF browser = "null" \/ atLimit(contexts)
              THEN /\ closed
                   /\ fetched' = visit("no context")
                   /\ rpc' = onUrlError(LimitError).rpc
                   /\ thrown' = onUrlError(LimitError).thrown
                   /\ UNCHANGED <<contexts, nextCtx, jobDetails>>
              ELSE /\ nextCtx' = nextCtx + 1
                   /\ CASE page = "navigation error" ->
                             /\ ~closed
                             /\ contexts' = held
                             /\ fetched' = visit("threw")
                             /\ rpc' = onUrlError(NavError).rpc
                             /\ thrown' = onUrlError(NavError).thrown
                             /\ UNCHANGED jobDetails
                        [] page = "no title" ->
                             /\ contexts' = held
                             /\ fetched' = visit("null")
                             /\ UNCHANGED <<rpc, thrown, jobDetails>>
                        [] page = "ok" ->
                             /\ contexts' = held
                             /\ fetched' = visit("extracted")
                             /\ jobDetails' = Append(jobDetails, PageOf(url))
                             /\ UNCHANGED <<rpc, thrown>>
  /\ UNCHANGED <<sessionId, searchResults, saved, topJobIds, dbFault, report, feed>>
  /\ UNCHANGED <<browser, calls>>
  /\ UNCHANGED <<scoreVars, matchVars, dbVars, schedVars, parseVars, llmVars>>
  /\ UNCHANGED roleResults

ScoreAndSelect ==
  /\ rpc = "fetch"
  /\ Len(fetched) = Len(searchResults)
  /\ \E r \in {scoreMultipleJobs(resumeData, jobDetails, clock)} :
       IF Threw(r)
       THEN /\ rpc' = "catch"
            /\ thrown' = r
            /\ UNCHANGED <<scoredJobs, topJobs, count>>
       ELSE /\ rpc' = "save"
            /\ scoredJobs' = r.value
            /\ \E n \in TopCounts :
                 /\ count' = n
                 /\ topJobs' = selectTopJobs(r.value, n, MIN_SCORE_THRESHOLD)
            /\ UNCHANGED thrown
  /\ UNCHANGED <<sessionId, searchResults, fetched, jobDetails, saved, topJobIds, dbFault, report, feed>>
  /\ UNCHANGED <<scoreVars, jobs, minScore, mpc, poolVars, dbVars, schedVars, parseVars, llmVars>>
  /\ UNCHANGED roleResults

(* one insertJobListing call of the loop over jobListings *)
SaveJob ==
  /\ rpc = "save"
  /\ saved < Len(scoredJobs)
  /\ \E inserted \in BOOLEAN :
       IF inserted
       THEN /\ \E w \in {insertJobListing(job_listings, job_listings_id_seq + 1,
                           convertToJobListing(scoredJobs[saved + 1], sessionId))} :
                 job_listings' = w.table
            /\ job_listings_id_seq' = job_listings_id_seq + 1
            /\ saved' = saved + 1
            /\ UNCHANGED <<rpc, thrown, dbFault>>
       ELSE /\ rpc' = "catch"
            /\ thrown' = DbError
            /\ dbFault' = TRUE
            /\ UNCHANGED <<job_listings, job_listings_id_seq, saved>>
  /\ UNCHANGED <<sessionId, searchResults, fetched, jobDetails, topJobIds, report, feed>>
  /\ UNCHANGED <<sessions, sessionLog, lastWrite>>
  /\ UNCHANGED <<scoreVars, matchVars, poolVars, schedVars, parseVars, llmVars>>
  /\ UNCHANGED roleResults

(* one insertJobListing call of the loop over topJobs *)
SaveTopJob ==
  /\ rpc = "save"
  /\ saved = Len(scoredJobs)
  /\ Len(topJobIds) < Len(topJobs)
  /\ \E inserted \in BOOLEAN :
       IF inserted
       THEN /\ \E w \in {insertJobListing(job_listings, job_listings_id_seq + 1,
                           convertToJobListing(topJobs[Len(topJobIds) + 1], sessionId))} :
                 /\ job_listings' = w.table
                 /\ topJobIds' = Append(topJobIds, w.id)
            /\ job_listings_id_seq' = job_listings_id_seq + 1
            /\ UNCHANGED <<rpc, thrown, dbFault>>
       ELSE /\ rpc' = "catch"
            /\ thrown' = DbError
            /\ dbFault' = TRUE
            /\ UNCHANGED <<job_listings, job_listings_id_seq, topJobIds>>
  /\ UNCHANGED <<sessionId, searchResults, fetched, jobDetails, saved, report, feed>>
  /\ UNCHANGED <<sessions, sessionLog, lastWrite>>
  /\ UNCHANGED <<scoreVars, matchVars, poolVars, schedVars, parseVars, llmVars>>
  /\ UNCHANGED roleResults

MarkTopPicks ==
  /\ rpc = "save"
  /\ saved = Len(scoredJobs)
  /\ Len(topJobIds) = Len(topJobs)
  /\ \E updated \in BOOLEAN :
       IF updated
       THEN /\ job_listings' = markTopPicks(job_listings, topJobIds)
            /\ rpc' = "final"
            /\ UNCHANGED <<thrown, dbFault>>
       ELSE /\ rpc' = "catch"
            /\ thrown' = DbError
            /\ dbFault' = TRUE
            /\ UNCHANGED job_listings
  /\ UNCHANGED <<sessionId, searchResults, fetched, jobDetails, saved, topJobIds, report, feed>>
  /\ UNCHANGED <<sessions, sessionLog, job_listings_id_seq, lastWrite>>
  /\ UNCHANGED <<scoreVars, matchVars, poolVars, schedVars, parseVars, llmVars>>
  /\ UNCHANGED roleResults

(* the update to completed, then the report and the return *)
CompleteSession ==
  /\ rpc = "final"
  /\ \E updated \in BOOLEAN :
       IF updated
       THEN /\ \E u \in {completedUpdate(scoredJobs, topJobs, clock)} :
                 /\ sessions' = updateSession(sessions, sessionId, u)
                 /\ sessionLog' = [sessionLog EXCEPT ![sessionId] =
                                     IF Has(u, "status") THEN Append(@, u.status) ELSE @]
            /\ report' = generateJobReport(scoredJobs)
            /\ rpc' = "returned"
            /\ UNCHANGED <<thrown, dbFault>>
       ELSE /\ rpc' = "catch"
            /\ thrown' = DbError
            /\ dbFault' = TRUE
            /\ UNCHANGED <<sessions, sessionLog, report>>
  /\ UNCHANGED <<sessionId, searchResults, fetched, jobDetails, saved, topJobIds, feed>>
  /\ UNCHANGED <<job_listings, job_listings_id_seq, lastWrite>>
  /\ UNCHANGED <<scoreVars, matchVars, poolVars, schedVars, parseVars, llmVars>>
  /\ UNCHANGED roleResults

(* the catch block: the update to failed, then the rethrow; when the       *)
(* update itself throws, that error leaves the cycle instead               *)
FailSession ==
  /\ rpc = "catch"
  /\ \E updated \in BOOLEAN :
       IF updated
       THEN /\ sessions' = updateSession(sessions, sessionId, failedUpdate(thrown, clock))
            /\ sessionLog' = [sessionLog EXCEPT ![sessionId] = Append(@, "failed")]
            /\ UNCHANGED <<thrown, dbFault>>
       ELSE /\ thrown' = DbError
            /\ dbFault' = TRUE
            /\ UNCHANGED <<sessions, sessionLog>>
  /\ rpc' = "rejected"
  /\ UNCHANGED <<sessionId, searchResults, fetched, jobDetails, saved, topJobIds, report, feed>>
  /\ UNCHANGED <<job_listings, job_listings_id_seq, lastWrite>>
  /\ UNCHANGED <<scoreVars, matchVars, poolVars, schedVars, parseVars, llmVars>>
  /\ UNCHANGED roleResults

(* what earlier cycles can have left in the tables: nothing, or a session *)
(* that ended, and a listing it stored as a top pick                      *)
EarlierSessions ==
  {<<>>,
   <<[id |-> 1, session_date |-> -3, status |-> "completed", total_jobs_found |-> 1,
      top_jobs_selected |-> 1, started_at |-> -72, completed_at |-> -72]>>,
   <<[id |-> 1, session_date |-> -3, status |-> "failed", total_jobs_found |-> 0,
      top_jobs_selected |-> 0, started_at |-> -72, completed_at |-> -72,
      error_message |-> DbError.message]>>}

EarlierListings(table) ==
  IF table = <<>> \/ table[1].status # "completed" THEN {<<>>}
  ELSE {markTopPicks(
          insertJobListing(<<>>, 1,
            convertToJobListing(PageOf(url) @@ [score |-> ScoreDen \div 2], 1)).table,
          <<1>>) : url \in {"u1", "u2"}}

InitRun ==
  /\ clock = 0
  /\ resumeData \in RunResumes
  /\ job = NoFields
  /\ result = Pending
  /\ NoBatch
  /\ NoPool
  /\ NoRun
  /\ sessions \in EarlierSessions
  /\ sessionLog = [i \in 1..Len(sessions) |-> <<"running", sessions[i].status>>]
  /\ job_listings \in EarlierListings(sessions)
  /\ job_listings_id_seq = Len(job_listings)
  /\ lastWrite = NoWrite
  /\ NoScheduler
  /\ NoParse
  /\ NoLlm

NextRun ==
  \/ CreateSession
  \/ Search
  \/ FetchOne
  \/ ScoreAndSelect
  \/ SaveJob
  \/ SaveTopJob
  \/ MarkTopPicks
  \/ CompleteSession
  \/ FailSession

SpecRun == InitRun /\ [][NextRun]_vars

session == sessions[sessionId]

(* the pages behind the URLs visited so far that load and carry a posting *)
healthy == {i \in 1..Len(fetched) : fetched[i].page = "ok"}

(* C3: a URL whose fetch or extraction fails is the only one dropped:      *)
(* every URL of the batch whose own page loads and carries a posting is    *)
(* fetched and extracted, whatever became of the URLs before it.           *)
C3_OnlyFailedUrlDropped ==
  /\ \A i \in healthy : fetched[i].outcome = "extracted"
  /\ (rpc = "save" \/ rpc = "final" \/ rpc = "returned")
       => Len(fetched) = Len(searchResults)

(* C4: the session row of a cycle is written twice: created running, then *)
(* updated once, to completed or to failed, and never written again.      *)
C4_SessionWrittenTwice ==
  \A id \in 1..Len(sessionLog) :
    /\ sessionLog[id][1] = "running"
    /\ Len(sessionLog[id]) <= 2
    /\ (id # sessionId \/ Ended)
         => sessionLog[id] \in {<<"running", "completed">>, <<"running", "failed">>}

(* C5: a cycle that raised an error after its session was created ends    *)
(* with the session row failed and carrying a non-empty error_message; no *)
(* cycle ends with its session row still running.                         *)
C5_ErrorEndsFailed ==
  (Ended /\ sessionId # 0)
    => /\ session.status # "running"
       /\ rpc = "rejected" => /\ session.status = "failed"
                              /\ Has(session, "error_message")
                              /\ session.error_message # ""

(* C6: a cycle whose URLs all failed, and whose store calls all returned, *)
(* ends returned, with its session completed and both counters 0.         *)
C6_AllUrlsFailedCompletes ==
  (/\ Ended
   /\ sessionId # 0
   /\ Len(searchResults) > 0
   /\ Len(fetched) = Len(searchResults)
   /\ \A i \in 1..Len(fetched) : fetched[i].outcome # "extracted"
   /\ ~dbFault)
    => /\ rpc = "returned"
       /\ session.status = "completed"
       /\ session.total_jobs_found = 0
       /\ session.top_jobs_selected = 0

(* a cycle over two or more URLs, none of which loaded, that has ended *)
C6_Witness ==
  /\ rpc = "returned"
  /\ Len(searchResults) >= 2
  /\ \A i \in 1..Len(fetched) : fetched[i].page = "navigation error"
  /\ Len(fetched) = Len(searchResults)
  /\ session.status = "completed"

(* the rows of job_listings that carry a URL *)
rowsOf(url) == {i \in 1..Len(job_listings) : job_listings[i].job_url = url}

(* a step that sets is_top_pick on a row that did not have it *)
flagsARow ==
  \E i \in 1..Len(job_listings') :
    /\ job_listings'[i].is_top_pick
    /\ i > Len(job_listings) \/ ~job_listings[i].is_top_pick

Bands == {"excellent", "good", "fair", "poor"}

(* the score bands as the report documents them *)
inBand(b, score) ==
  CASE b = "excellent" -> 10 * score > 8 * ScoreDen
    [] b = "good" -> 10 * score > 6 * ScoreDen /\ 10 * score <= 8 * ScoreDen
    [] b = "fair" -> 10 * score > 4 * ScoreDen /\ 10 * score <= 6 * ScoreDen
    [] b = "poor" -> 10 * score <= 4 * ScoreDen

C19_FetchesFirstBatch ==
  /\ Len(fetched) <= BatchLimit
  /\ Len(fetched) <= Len(feed)
  /\ \A i \in 1..Len(fetched) : fetched[i].url = feed[i]
  /\ (rpc = "save" \/ rpc = "final" \/ rpc = "returned")
       => Len(fetched) = Min2(BatchLimit, Len(feed))

(* a cycle that returned after a search that turned up more than *)
(* BatchLimit URLs, BatchLimit of them fetched                    *)
C19_Witness ==
  /\ rpc = "returned"
  /\ Len(feed) > BatchLimit
  /\ Len(fetched) = BatchLimit

(* C20: every context acquired for a URL is released before the next URL *)
(* is processed, whatever became of the URL: no context is open between  *)
(* URLs, nor when the loop is over.                                      *)
C20_NoContextBetweenUrls ==
  (rpc = "fetch" \/ rpc = "save") => Len(contexts) = 0

(* the URLs of the batch that were fetched and extracted *)
extracted == {i \in 1..Len(fetched) : fetched[i].outcome = "extracted"}

(* C22: the session of a cycle that returned is completed, its            *)
(* total_jobs_found is the number of URLs fetched and extracted and its   *)
(* top_jobs_selected the size of the selection; the latter is at most     *)
(* min(topN, total_jobs_found), and at least 1 when total_jobs_found >= 1 *)
(* and topN >= 1.                                                         *)
C22_CompletedCounts ==
  rpc = "returned"
    => /\ session.status = "completed"
       /\ session.total_jobs_found = Cardinality(extracted)
       /\ session.top_jobs_selected = Len(topJobs)
       /\ session.top_jobs_selected <= Min2(count, session.total_jobs_found)
       /\ (session.total_jobs_found >= 1 /\ count >= 1) => session.top_jobs_selected >= 1

(* a completed session of three records of which topN = 1 was selected *)
C22_Witness ==
  /\ rpc = "returned"
  /\ session.status = "completed"
  /\ session.total_jobs_found >= 3
  /\ count = 1
  /\ session.top_jobs_selected = 1

(* the rows getJobsForSession selects: WHERE session_id = sid *)
jobsForSession(sid) == {i \in 1..Len(job_listings) : job_listings[i].session_id = sid}

(* C23: after a cycle returned, the rows carrying its session id are     *)
(* exactly the records it scored, one row per record, also when a URL    *)
(* was stored by an earlier session.                                     *)
C23_SessionRowsAreScoredJobs ==
  rpc = "returned"
    => /\ Cardinality(jobsForSession(sessionId)) = session.total_jobs_found
       /\ {job_listings[i].job_url : i \in jobsForSession(sessionId)}
            = {scoredJobs[k].job_url : k \in 1..Len(scoredJobs)}

(* C24: a row is flagged only if the latest cycle that persisted it      *)
(* selected it: after a cycle returned, every flagged row whose URL the  *)
(* cycle scored is the row of a selected record.                         *)
C24_FlagFollowsLatestRun ==
  rpc = "returned"
    => \A i \in 1..Len(job_listings) :
         (/\ job_listings[i].is_top_pick
          /\ \E k \in 1..Len(scoredJobs) : scoredJobs[k].job_url = job_listings[i].job_url)
           => \E k \in 1..Len(topJobs) : topJobs[k].job_url = job_listings[i].job_url

----------------------------------------------------------------------------
(* Upserts on their own: any sequence of insertJobListing calls *)

StoreScores == {0, ScoreDen \div 2, (733 * ScoreDen) \div 1000}

ListingBodies ==
  {[title |-> <<"software", "engineer">>, company |-> <<"Acme">>],
   [title |-> <<"Senior", "Backend", "Engineer">>, company |-> <<"Initech">>,
    description |-> <<"senior", "role">>, location |-> <<"Remote">>]}

Listings ==
  {b @@ [job_url |-> u, score |-> sc, session_id |-> 1] :
     b \in ListingBodies, u \in {"u1", "u2"}, sc \in StoreScores}

rowsWith(url) == {i \in 1..Len(job_listings) : job_listings[i].job_url = url}

InsertJobListing ==
  /\ job_listings_id_seq < MaxWrites
  /\ \E l \in Listings, inserted \in BOOLEAN :
       IF inserted
       THEN \E w \in {insertJobListing(job_listings, job_listings_id_seq + 1, l)} :
              /\ job_listings' = w.table
              /\ job_listings_id_seq' = job_listings_id_seq + 1
              /\ lastWrite' =
                   [status |-> "done", listing |-> l, id |-> w.id,
                    priorLen |-> Len(job_listings),
                    prior |-> {job_listings[i] : i \in rowsWith(l.job_url)}]
       ELSE UNCHANGED <<job_listings, job_listings_id_seq, lastWrite>>
  /\ UNCHANGED <<sessions, sessionLog>>
  /\ UNCHANGED <<scoreVars, matchVars, poolVars, runVars, schedVars, parseVars, llmVars>>

InitStore ==
  /\ clock = 0
  /\ resumeData = [candidate |-> EmptyBody]
  /\ job = NoFields
  /\ result = Pending
  /\ NoBatch
  /\ NoPool
  /\ NoRun
  /\ NoStore
  /\ NoScheduler
  /\ NoParse
  /\ NoLlm

NextStore == InsertJobListing

SpecStore == InitStore /\ [][NextStore]_vars

sameOrBothAbsent(a, b, k) == IF Has(a, k) THEN Has(b, k) /\ a[k] = b[k] ELSE ~Has(b, k)

(* what an upsert leaves behind, but for the score *)
upsertOutcome(row, w) ==
  /\ row.id = w.id
  /\ row.title = w.listing.title
  /\ row.company = w.listing.company
  /\ sameOrBothAbsent(row, w.listing, "description")
  /\ w.prior # {} => /\ Len(job_listings) = w.priorLen
                     /\ \A old \in w.prior : old.id = w.id

oneRowPerUrl ==
  \A i, j \in 1..Len(job_listings) :
    job_listings[i].job_url = job_listings[j].job_url => i = j

(* C7 as stated: at most one row per job_url; an upsert of a stored        *)
(* job_url adds no row, returns the row's id and leaves title, company,    *)
(* description and score equal to those written.                           *)
C7_UpsertKeepsLatestWrite ==
  /\ oneRowPerUrl
  /\ lastWrite.status = "done"
       => \E i \in rowsWith(lastWrite.listing.job_url) :
            /\ upsertOutcome(job_listings[i], lastWrite)
            /\ job_listings[i].score * ScoreDen = lastWrite.listing.score * 100

(* C7: at most one row per job_url; an upsert of a stored job_url adds no  *)
(* row, returns the row's id and leaves title, company and description     *)
(* equal to those written and the score equal to the written score rounded *)
(* to hundredths.                                                          *)
C7_UpsertKeepsLatestRounded ==
  /\ oneRowPerUrl
  /\ lastWrite.status = "done"
       => \E i \in rowsWith(lastWrite.listing.job_url) :
            /\ upsertOutcome(job_listings[i], lastWrite)
            /\ job_listings[i].score = hundredths(lastWrite.listing.score)

(* an upsert that met a stored row with another title and another score, *)
(* next to a row of another job_url                                      *)
C7_Witness ==
  /\ lastWrite.status = "done"
  /\ Len(job_listings) >= 2
  /\ \E old \in lastWrite.prior :
       /\ old.title # lastWrite.listing.title
       /\ old.score # hundredths(lastWrite.listing.score)
       /\ Has(old, "description") # Has(lastWrite.listing, "description")

----------------------------------------------------------------------------
(* The scheduler: services/scheduler.ts.  The cron expression fires every  *)
(* day at 09:00; a manual trigger can come at any time.  An invocation of  *)
(* executeScrapingJob decides in one step (shouldRunScraping), and the run *)
(* it starts creates its session and ends in later steps, so invocations   *)
(* overlap.                                                                *)

CronHour == 9

shouldRunScraping_Always(table, lookedUp, now, cfg) == TRUE

(* lookedUp: whether getLastScrapingDate returned rather than threw *)
shouldRunScraping(table, lookedUp, now, cfg) ==
  IF ~lookedUp THEN TRUE
  ELSE LET lastScrapingDate == getLastScrapingDate(table)
       IN  IF ~lastScrapingDate.found THEN TRUE
           ELSE (now - lastScrapingDate.day * HoursPerDay) \div HoursPerDay
                  >= cfg.intervalDays

(* start(): a disabled scheduler returns; otherwise cron.schedule makes a *)
(* task, active at once (scheduled: true), and this.task refers to it     *)
Start ==
  /\ config.enabled
  /\ cronTasks < MaxTasks
  /\ task' = "scheduled"
  /\ cronTasks' = cronTasks + 1
  /\ UNCHANGED <<config, trig, lastEnded, status>>
  /\ UNCHANGED <<scoreVars, matchVars, poolVars, runVars, parseVars, llmVars, dbVars>>

(* stop(): the task this.task refers to is stopped and forgotten *)
Stop ==
  /\ task # "null"
  /\ task' = "null"
  /\ cronTasks' = cronTasks - 1
  /\ UNCHANGED <<config, trig, lastEnded, status>>
  /\ UNCHANGED <<scoreVars, matchVars, poolVars, runVars, parseVars, llmVars, dbVars>>

(* the partial configurations updateConfig is handed *)
ConfigUpdates ==
  {NoFields, [enabled |-> FALSE], [enabled |-> TRUE], [intervalDays |-> 1]}

(* updateConfig(newConfig): stop() when a task is referred to, the merge, *)
(* then start() when one was and the scheduler is enabled                 *)
UpdateConfig ==
  \E newConfig \in ConfigUpdates :
    LET wasRunning == task # "null"
        merged == newConfig @@ config
    IN  /\ config' = merged
        /\ IF wasRunning /\ merged.enabled
           THEN UNCHANGED <<task, cronTasks>>
           ELSE /\ task' = "null"
                /\ cronTasks' = IF wasRunning THEN cronTasks - 1 ELSE cronTasks
        /\ UNCHANGED <<trig, lastEnded, status>>
        /\ UNCHANGED <<scoreVars, matchVars, poolVars, runVars, parseVars, llmVars, dbVars>>

(* getNextRunTime(): null without a task, else intervalDays days on at 9:00 *)
getNextRunTime(t, cfg, now) ==
  IF t = "null" THEN Null
  ELSE Date((dayOf(now) + cfg.intervalDays) * HoursPerDay + CronHour)

GetStatus ==
  /\ status' = [enabled |-> config.enabled,
                intervalDays |-> config.intervalDays,
                isRunning |-> task # "null",
                nextRunTime |-> getNextRunTime(task, config, clock),
                lastRunTime |-> Null]
  /\ UNCHANGED <<task, config, trig, lastEnded, cronTasks>>
  /\ UNCHANGED <<scoreVars, matchVars, poolVars, runVars, parseVars, llmVars, dbVars>>

(* a day passes *)
Tick ==
  /\ dayOf(clock) < MaxDay
  /\ clock' = clock + HoursPerDay
  /\ UNCHANGED <<resumeData, job, result>>
  /\ UNCHANGED <<matchVars, poolVars, runVars, dbVars, schedVars, parseVars, llmVars>>

(* the cron callback or triggerManualScraping, up to the decision *)
Trigger(s) ==
  /\ trig[s].pc = "idle"
  /\ s = "cron" => cronTasks >= 1 /\ clock % HoursPerDay = CronHour
  /\ \E lookedUp \in BOOLEAN :
       trig' = [trig EXCEPT ![s] =
                  [pc |-> "decided",
                   run |-> shouldRunScraping(sessions, lookedUp, clock, config),
                   lookedUp |-> lookedUp,
                   after |-> lastEnded]]
  /\ UNCHANGED <<task, config, lastEnded, cronTasks, status>>
  /\ UNCHANGED <<scoreVars, matchVars, poolVars, runVars, parseVars, llmVars, dbVars>>

(* "Skipping scraping - too soon since last run" *)
Skip(s) ==
  /\ trig[s].pc = "decided"
  /\ ~trig[s].run
  /\ trig' = [trig EXCEPT ![s] = Idle]
  /\ UNCHANGED <<task, config, lastEnded, cronTasks, status>>
  /\ UNCHANGED <<scoreVars, matchVars, poolVars, runVars, parseVars, llmVars, dbVars>>

(* onScrapingTrigger up to createSession: the session is created, or an   *)
(* error on the way there ends the invocation                             *)
RunBegin(s) ==
  /\ trig[s].pc = "decided"
  /\ trig[s].run
  /\ Len(sessions) < MaxSessions
  /\ \E created \in BOOLEAN :
       IF created
       THEN /\ sessions' = createSession(sessions,
                              [session_date |-> dayOf(clock), status |-> "running"], clock)
            /\ sessionLog' = Append(sessionLog, <<"running">>)
            /\ trig' = [trig EXCEPT ![s] = [pc |-> "running", session |-> Len(sessions) + 1]]
            /\ UNCHANGED lastEnded
       ELSE /\ trig' = [trig EXCEPT ![s] = Idle]
            /\ lastEnded' = "failed"
            /\ UNCHANGED <<sessions, sessionLog>>
  /\ UNCHANGED <<task, config, cronTasks, status>>
  /\ UNCHANGED <<job_listings, job_listings_id_seq, lastWrite>>
  /\ UNCHANGED <<scoreVars, matchVars, poolVars, runVars, parseVars, llmVars>>

(* the rest of the run: it ends completed, or failed, or with an error    *)
(* that left the session row as it was                                    *)
RunEnd(s) ==
  /\ trig[s].pc = "running"
  /\ \E end \in {"completed", "failed", "unrecorded"} :
       /\ sessions' =
            CASE end = "completed" ->
                   updateSession(sessions, trig[s].session, completedUpdate(<<>>, <<>>, clock))
              [] end = "failed" ->
                   updateSession(sessions, trig[s].session, failedUpdate(DbError, clock))
              [] OTHER -> sessions
       /\ sessionLog' = IF end = "unrecorded" THEN sessionLog
                        ELSE [sessionLog EXCEPT ![trig[s].session] = Append(@, end)]
       /\ lastEnded' = IF end = "completed" THEN "completed" ELSE "failed"
  /\ trig' = [trig EXCEPT ![s] = Idle]
  /\ UNCHANGED <<task, config, cronTasks, status>>
  /\ UNCHANGED <<job_listings, job_listings_id_seq, lastWrite>>
  /\ UNCHANGED <<scoreVars, matchVars, poolVars, runVars, parseVars, llmVars>>

InitSched ==
  /\ clock = CronHour
  /\ resumeData = [candidate |-> EmptyBody]
  /\ job = NoFields
  /\ result = Pending
  /\ NoBatch
  /\ NoPool
  /\ NoRun
  /\ NoStore
  /\ NoScheduler
  /\ NoParse
  /\ NoLlm

NextSched ==
  \/ (task = "null" /\ Start)
  \/ Stop
  \/ Tick
  \/ \E s \in Slots : Trigger(s)
  \/ \E s \in Slots : Skip(s)
  \/ \E s \in Slots : RunBegin(s)
  \/ \E s \in Slots : RunEnd(s)

SpecSched == InitSched /\ [][NextSched]_vars

completedSessions == {i \in 1..Len(sessions) : sessions[i].status = "completed"}

(* days, by the calendar, since session i was created *)
daysOld(i) == dayOf(clock) - sessions[i].session_date

(* the step in which invocation s decides; decidesToRun when it goes on *)
decides(s) == trig[s].pc = "idle" /\ trig'[s].pc = "decided"

(* C8 as stated: a trigger starts a run only if no completed session       *)
(* exists or the latest one is at least intervalDays days old.             *)
C8_RunsOnlyWhenDue ==
  [][\A s \in Slots :
       (decides(s) /\ trig'[s].run)
         => \A i \in completedSessions : daysOld(i) >= config.intervalDays]_vars

(* C8: a trigger starts a run only if the look-up of the last completed    *)
(* session failed, or no completed session exists, or the latest one is at *)
(* least intervalDays days old by the calendar; a trigger whose look-up    *)
(* finds a younger completed session starts no run.                        *)
C8_RunsOnlyWhenDueOrBlind ==
  [][\A s \in Slots :
       decides(s)
         => trig'[s].run
              = (\/ ~trig'[s].lookedUp
                 \/ \A i \in completedSessions : daysOld(i) >= config.intervalDays)]_vars

(* a trigger whose look-up found a completed session old enough, and that *)
(* went on to start a run                                                 *)
C8_Witness ==
  \E s \in Slots :
    /\ trig[s].pc = "decided"
    /\ trig[s].run
    /\ trig[s].lookedUp
    /\ completedSessions # {}
    /\ \A i \in completedSessions : daysOld(i) >= config.intervalDays

(* C9 as stated: the trigger that follows a failed run starts a run. *)
C9_FailedRunIsRetried ==
  [][\A s \in Slots :
       (decides(s) /\ lastEnded = "failed") => trig'[s].run]_vars

(* C9: a run that ends, however it ends, leaves the scheduled task as it   *)
(* was; and the trigger that follows a failed run is skipped only when a   *)
(* completed session younger than intervalDays days exists, so no failed   *)
(* session ever counts as the last run.                                    *)
C9_FailedRunNeverCounts ==
  [][/\ \A s \in Slots :
          (decides(s) /\ lastEnded = "failed" /\ ~trig'[s].run)
            => \E i \in completedSessions : daysOld(i) < config.intervalDays
     /\ \A s \in Slots :
          (trig[s].pc \in {"decided", "running"} /\ trig'[s].pc = "idle")
            => task' = task]_vars

(* the cron trigger after a failed run, with only failed sessions stored, *)
(* went on to run while the task was still scheduled                      *)
C9_Witness ==
  /\ task = "scheduled"
  /\ trig["cron"].pc = "decided"
  /\ trig["cron"].after = "failed"
  /\ trig["cron"].lookedUp
  /\ trig["cron"].run
  /\ \E i \in 1..Len(sessions) : sessions[i].status = "failed"
  /\ completedSessions = {}

(* the invocations whose run is in progress *)
running == {s \in Slots : trig[s].pc = "running"}

(* C21: at most one scraping run is in progress at any time: a trigger *)
(* that fires while a run has not finished starts no second run.       *)
C21_OneRunAtATime ==
  Cardinality(running) <= 1

----------------------------------------------------------------------------
(* The life cycle of the scheduled task: start, stop, updateConfig and *)
(* getStatus in any order, days passing in between                     *)

InitTask == InitSched

NextTask ==
  \/ Start
  \/ Stop
  \/ UpdateConfig
  \/ GetStatus
  \/ Tick

SpecTask == InitTask /\ [][NextTask]_vars

(* C25: once stop() has returned no cron task the scheduler made is   *)
(* active, whatever calls came before; and isRunning, as getStatus    *)
(* computes it, is true exactly when such a task is active.           *)
C25_StopLeavesNoTask ==
  /\ [][(task # "null" /\ task' = "null") => cronTasks' = 0]_vars
  /\ []((task # "null") = (cronTasks >= 1))

----------------------------------------------------------------------------
(* scraper/parser.ts: JobParser.extractJobDetails.  The page is what       *)
(* page.evaluate reads off the document: the text of the first selector    *)
(* that resolves for each field, "" (the empty sequence of words) when     *)
(* none does, and document.body.innerText.                                 *)

(* String.prototype.indexOf over words: 0 for "not found" *)
indexOf(s, t) ==
  IF includes(s, t)
    THEN CHOOSE i \in 1..Len(s) :
           /\ i + Len(t) - 1 <= Len(s)
           /\ SubSeq(s, i, i + Len(t) - 1) = t
           /\ \A h \in 1..(i - 1) : SubSeq(s, h, h + Len(t) - 1) # t
    ELSE 0

(* the technologies extractTechStack looks for besides the résumé's own; *)
(* the ones the pages of the model can name                              *)
commonTechnologies == << <<"SQL">>, <<"Docker">>, <<"React", "Native">> >>

extractTechStack(resume, text) ==
  IF ~Has(resume, "data")
    THEN TypeError("Cannot read properties of undefined (reading 'tech_stack')")
    ELSE Val(unique(filter(resume.data.tech_stack \o commonTechnologies,
                           LAMBDA tech : includes(toLowerCase(text), toLowerCase(tech)))))

requirementSections ==
  << <<"requirements:">>, <<"qualifications:">>, <<"must", "have:">> >>

(* the text after the first section heading of the list that the page has; *)
(* the pages of the model are shorter than the 1000 characters it keeps    *)
RECURSIVE requirementsFrom(_, _)
requirementsFrom(text, k) ==
  IF k > Len(requirementSections) THEN <<>>
  ELSE LET section == requirementSections[k]
           index == indexOf(toLowerCase(text), section)
       IN IF index # 0
            THEN SubSeq(text, index + Len(section), Len(text))
            ELSE requirementsFrom(text, k + 1)

extractRequirements(text) == requirementsFrom(text, 1)

Numerals == {"0", "2", "30"}

parseInt(w) ==
  CASE w = "0" -> 0
    [] w = "2" -> 2
    [] w = "30" -> 30

(* the regular expressions of extractPostedDate, one token per word *)
datePatterns ==
  << <<"posted", "(\\d+)", "days?", "ago">>,
     <<"(\\d+)", "days?", "ago">>,
     <<"posted", "(\\d+)", "hours?", "ago">>,
     <<"(\\d+)", "hours?", "ago">>,
     <<"posted", "today">>,
     <<"posted", "yesterday">> >>

tokenMatches(token, w) ==
  CASE token = "(\\d+)" -> w \in Numerals
    [] token = "days?" -> LowerWord(w) \in {"day", "days"}
    [] token = "hours?" -> LowerWord(w) \in {"hour", "hours"}
    [] OTHER -> LowerWord(w) = token

matchesAt(text, pattern, i) ==
  /\ i + Len(pattern) - 1 <= Len(text)
  /\ \A j \in 1..Len(pattern) : tokenMatches(pattern[j], text[i + j - 1])

(* String.prototype.match: the leftmost match, with its capture group *)
match(text, pattern) ==
  IF \E i \in 1..Len(text) : matchesAt(text, pattern, i)
    THEN LET i == CHOOSE h \in 1..Len(text) :
                    /\ matchesAt(text, pattern, h)
                    /\ \A g \in 1..(h - 1) : ~matchesAt(text, pattern, g)
             whole == SubSeq(text, i, i + Len(pattern) - 1)
             digits == SelectSeq(whole, LAMBDA w : w \in Numerals)
         IN [whole |-> whole] @@ (IF digits = <<>> THEN NoFields ELSE [group |-> digits[1]])
    ELSE Null

RECURSIVE postedDateFrom(_, _, _)
postedDateFrom(text, now, k) ==
  IF k > Len(datePatterns) THEN NoFields
  ELSE LET m == match(text, datePatterns[k])
       IN IF m = Null THEN postedDateFrom(text, now, k + 1)
          ELSE IF includes(toLowerCase(m.whole), <<"today">>)
            THEN [posted_date |-> Date(now)]
          ELSE IF includes(toLowerCase(m.whole), <<"yesterday">>)
            THEN [posted_date |-> Date(now - HoursPerDay)]
          ELSE IF Has(m, "group")
            THEN IF \E i \in 1..Len(m.whole) : LowerWord(m.whole[i]) \in {"hour", "hours"}
                   THEN [posted_date |-> Date(now - parseInt(m.group))]
                   ELSE [posted_date |-> Date(now - HoursPerDay * parseInt(m.group))]
          ELSE postedDateFrom(text, now, k + 1)

(* a variant that dates a page without a date phrase at the extraction *)
extractPostedDate_Now(text, now) ==
  IF postedDateFrom(text, now, 1) = NoFields
  THEN [posted_date |-> Date(now)]
  ELSE postedDateFrom(text, now, 1)

(* the posted_date field of the record: absent where the code leaves it *)
(* undefined                                                            *)
extractPostedDate(text, now) == postedDateFrom(text, now, 1)

(* x || undefined as a field of an object literal *)
orUndefined(key, x) == IF x = <<>> THEN NoFields ELSE [k \in {key} |-> x]

(* a variant that gives up only when neither essential field resolves *)
extractJobDetails_EitherSuffices(resume, d, now) ==
  IF ~d.loads THEN Null
  ELSE IF d.title = <<>> /\ d.company = <<>> THEN Null
  ELSE LET techStack == extractTechStack(resume, d.fullText)
       IN IF Threw(techStack) THEN Null
          ELSE [title |-> d.title,
                company |-> d.company,
                company_url |-> d.companyUrl,
                job_url |-> d.url,
                description |-> d.description,
                requirements |-> extractRequirements(d.fullText),
                tech_stack |-> techStack.value]
               @@ orUndefined("salary_range", d.salary)
               @@ orUndefined("location", d.location)
               @@ extractPostedDate(d.fullText, now)

(* extractJobDetails(page): null when the page fails to load or evaluate,  *)
(* when the title or the company is empty, and when anything below raises  *)
(* (the catch of the whole body); the record otherwise                     *)
extractJobDetails(resume, d, now) ==
  IF ~d.loads THEN Null
  ELSE IF d.title = <<>> \/ d.company = <<>> THEN Null
  ELSE LET techStack == extractTechStack(resume, d.fullText)
       IN IF Threw(techStack) THEN Null
          ELSE [title |-> d.title,
                company |-> d.company,
                company_url |-> d.companyUrl,
                job_url |-> d.url,
                description |-> d.description,
                requirements |-> extractRequirements(d.fullText),
                tech_stack |-> techStack.value]
               @@ orUndefined("salary_range", d.salary)
               @@ orUndefined("location", d.location)
               @@ extractPostedDate(d.fullText, now)

----------------------------------------------------------------------------
(* Extracting one page: extractJobDetails applied to any résumé and page *)

PageTexts ==
  {<<>>,
   <<"We", "use", "React", "and", "sql", "Posted", "2", "days", "ago">>,
   <<"Requirements:", "Docker", "Python", "30", "hours", "ago">>,
   <<"posted", "today", "must", "have:", "React", "Native", "React">>,
   <<"2", "Days", "ago", "posted", "30", "days", "ago", "posted", "yesterday">>,
   <<"We", "are", "hiring", "Requirements:", "sql">>}

Pages ==
  {[url |-> "u1", companyUrl |-> "jobs.example.com", loads |-> ok,
    title |-> t, company |-> c, description |-> ds, location |-> l,
    salary |-> sa, fullText |-> ft] :
     ok \in BOOLEAN,
     t \in {<<>>, <<"Backend", "Engineer">>},
     c \in {<<>>, <<"Acme">>},
     ds \in {<<>>, <<"mid-level", "role">>},
     l \in {<<>>, <<"Remote">>},
     sa \in {<<>>, <<"10-20", "LPA">>},
     ft \in PageTexts}

InitExtract ==
  /\ clock = 0
  /\ resumeData \in Resumes
  /\ dom \in Pages
  /\ details = Pending
  /\ job = NoFields
  /\ result = Pending
  /\ NoBatch
  /\ NoPool
  /\ NoRun
  /\ NoStore
  /\ NoScheduler
  /\ NoLlm

ExtractJobDetails ==
  /\ details = Pending
  /\ details' = extractJobDetails(resumeData, dom, clock)
  /\ UNCHANGED <<dom, scoreVars, matchVars, poolVars, runVars, dbVars, schedVars, llmVars>>

NextExtract == ExtractJobDetails

SpecExtract == InitExtract /\ [][NextExtract]_vars

Extracted == details # Pending

resolved(field) == dom.loads /\ dom[field] # <<>>

(* C14 as stated: null is returned only when both the title and the *)
(* company are unresolved.                                          *)
C14_NullOnlyWhenBothUnresolved ==
  (Extracted /\ dom.loads)
    => (details = Null <=> (~resolved("title") /\ ~resolved("company")))

(* C14: the extractor returns null whenever the page does not evaluate,    *)
(* the title or the company is unresolved, or extraction raises (as it     *)
(* does on every page for a résumé without the key data); a page on which  *)
(* both resolve and nothing raises yields a record that carries them, with *)
(* an unresolved description or requirements empty and an unresolved       *)
(* location, salary or posting date undefined.                             *)
C14_NullUnlessBothResolve ==
  Extracted =>
    IF resolved("title") /\ resolved("company") /\ Has(resumeData, "data")
      THEN /\ details # Null
           /\ details.title = dom.title
           /\ details.company = dom.company
           /\ details.job_url = dom.url
           /\ details.description = dom.description
           /\ Has(details, "location") = resolved("location")
           /\ Has(details, "salary_range") = resolved("salary")
           /\ Has(details, "location") => details.location = dom.location
           /\ Has(details, "salary_range") => details.salary_range = dom.salary
           /\ Has(details, "posted_date")
                = \E k \in 1..Len(datePatterns), i \in 1..Len(dom.fullText) :
                     matchesAt(dom.fullText, datePatterns[k], i)
           /\ (\A k \in 1..Len(requirementSections) :
                 ~includes(toLowerCase(dom.fullText), requirementSections[k]))
                => details.requirements = <<>>
      ELSE details = Null

(* a page with a title and no company, extracted for a résumé that has *)
(* the key data: null, although one of the two resolved                *)
C14_Witness ==
  /\ Extracted
  /\ resolved("title")
  /\ ~resolved("company")
  /\ Has(resumeData, "data")
  /\ details = Null

(* the recency sub-score as documented, by whole days since the posting *)
documentedRecency(d) ==
  CASE d <= 1 -> 100
    [] d > 1 /\ d <= 3 -> 80
    [] d > 3 /\ d <= 7 -> 60
    [] d > 7 /\ d <= 14 -> 40
    [] d > 14 /\ d <= 30 -> 20
    [] OTHER -> 0

(* ages of a posting, in hours: every half day up to MaxAgeDays days *)
MaxAgeDays == 32
AgeHours == {12 * k : k \in 0..(2 * MaxAgeDays)}

recencyAt(h) == calculateRecencyScore([posted_date |-> Date(clock - h)], clock)

hasDatePhrase(text) ==
  \E k \in 1..Len(datePatterns), i \in 1..Len(text) : matchesAt(text, datePatterns[k], i)

(* C26: the recency sub-score of an extracted record is 50 when the page *)
(* has no recognised date phrase, the record then carrying no date, and  *)
(* otherwise the documented score of the whole days since the posting;   *)
(* over all ages it follows the documented bands and never increases     *)
(* with the age.                                                         *)
C26_RecencyBands ==
  (Extracted /\ details # Null)
    => /\ Has(details, "posted_date") = hasDatePhrase(dom.fullText)
       /\ IF Has(details, "posted_date")
          THEN calculateRecencyScore(details, clock)
                 = documentedRecency((clock - details.posted_date.t) \div HoursPerDay) * TechDen
          ELSE calculateRecencyScore(details, clock) = 50 * TechDen
       /\ \A h \in AgeHours :
            recencyAt(h) = documentedRecency(h \div HoursPerDay) * TechDen
       /\ \A h1, h2 \in AgeHours : h1 <= h2 => recencyAt(h1) >= recencyAt(h2)

(* a record extracted from a page whose text has no date phrase *)
C26_Witness ==
  /\ Extracted
  /\ details # Null
  /\ dom.fullText # <<>>
  /\ ~hasDatePhrase(dom.fullText)
  /\ ~Has(details, "posted_date")
  /\ calculateRecencyScore(details, clock) = 50 * TechDen

----------------------------------------------------------------------------
(* llm/gemini-client.ts and the JobMatcher built on it.  The text of a    *)
(* reply is a sequence of lines, a line a sequence of words.               *)

(* the number a word begins with (digits, with or without a point), in *)
(* thousandths; -1 for a word that begins with none                    *)
leadingNumber(w) ==
  CASE w = "0" -> 0
    [] w = "0.6" -> 600
    [] w = "0.75" -> 750
    [] w = "1.5" -> 1500
    [] w = "8/10" -> 8000
    [] w = "85" -> 85000
    [] OTHER -> -1

(* the positions of a text in reading order *)
positions(text) ==
  UNION {{<<l, a>> : a \in 1..Len(text[l])} : l \in 1..Len(text)}

before(p, q) == p[1] < q[1] \/ (p[1] = q[1] /\ p[2] < q[2])

firstOf(ps) == CHOOSE p \in ps : \A q \in ps : q = p \/ before(p, q)

(* the word that follows a position once white space is skipped, "" at *)
(* the end of the text                                                 *)
wordAfter(text, p) ==
  LET later == {q \in positions(text) : before(p, q)}
  IN IF later = {} THEN "" ELSE text[firstOf(later)[1]][firstOf(later)[2]]

(* scoreMatch ? parseFloat(scoreMatch[1]) : 0, scoreMatch being the first *)
(* "Score:", in any case, that a number follows                           *)
parseScore(text) ==
  LET hits == {p \in positions(text) :
                 /\ LowerWord(text[p[1]][p[2]]) = "score:"
                 /\ leadingNumber(wordAfter(text, p)) >= 0}
  IN IF hits = {} THEN 0
     ELSE leadingNumber(wordAfter(text, firstOf(hits))) * TechDen

(* reasonsMatch: the rest of the text after the first "Reason:" or      *)
(* "Reasons:", split on line ends, trimmed, the empty lines dropped     *)
parseReasons(text) ==
  LET hits == {p \in positions(text) :
                 LowerWord(text[p[1]][p[2]]) \in {"reason:", "reasons:"}}
  IN IF hits = {} THEN <<>>
     ELSE LET p == firstOf(hits)
              rest == <<SubSeq(text[p[1]], p[2] + 1, Len(text[p[1]]))>>
                        \o SubSeq(text, p[1] + 1, Len(text))
          IN filter(rest, LAMBDA line : line # <<>>)

(* GeminiClient.scoreJob once the response is in *)
geminiScoreJob(response) ==
  IF ~response.ok THEN Error("Gemini API error: 500")
  ELSE LET text == orEmpty(response, "text")
       IN Val([score |-> parseScore(text), matchReasons |-> parseReasons(text)])

(* a variant that asks Gemini whatever the key holds *)
llmScoreJob_NoCache(j, cached, response) ==
  LET answer == geminiScoreJob(response)
  IN IF Threw(answer) THEN [result |-> answer, cache |-> cached]
     ELSE [result |-> Val(answer.value @@ j), cache |-> answer.value]

(* JobMatcher.scoreJob over Redis and Gemini: the result, and the entry *)
(* the key holds afterwards; JSON.parse(JSON.stringify(x)) is x for a   *)
(* finite number and a list of strings                                  *)
llmScoreJob(j, cached, response) ==
  IF cached # Null
  THEN [result |-> Val([score |-> cached.score, matchReasons |-> cached.matchReasons] @@ j),
        cache |-> cached]
  ELSE LET answer == geminiScoreJob(response)
       IN IF Threw(answer) THEN [result |-> answer, cache |-> cached]
          ELSE [result |-> Val(answer.value @@ j), cache |-> answer.value]

ReplyTexts ==
  {<<>>,
   << <<"Score:", "0.75">>, <<"Reasons:", "strong", "tech", "match">>, <<"remote">> >>,
   << <<"Score:", "85">>, <<"Reasons:", "good", "fit">> >>,
   << <<"Score:", "0.6">> >>,
   << <<"The", "match", "is", "high">> >>,
   << <<"score:", "1.5">>, <<"reason:">>, <<>>, <<"overqualified">> >>,
   << <<"Reasons:", "none">>, <<"Score:", "high">>, <<"SCORE:">>, <<"0">> >>,
   << <<"Score:", "8/10">>, <<"Reasons:">> >>}

(* the responses of the API: an error status, a body without candidates, *)
(* a body with a text                                                    *)
Responses ==
  {[ok |-> FALSE], [ok |-> TRUE]} \cup {[ok |-> TRUE, text |-> t] : t \in ReplyTexts}

InitLlm ==
  /\ clock = 0
  /\ resumeData \in RunResumes
  /\ job \in BatchPool
  /\ result = Pending
  /\ NoBatch
  /\ NoPool
  /\ NoRun
  /\ NoStore
  /\ NoScheduler
  /\ NoParse
  /\ NoLlm

LlmScoreJob ==
  /\ llmCalls < MaxLlmCalls
  /\ \E response \in Responses :
       \E o \in {llmScoreJob(job, cache, response)} :
         /\ llmResult' = o.result
         /\ cache' = o.cache
         /\ reply' = IF cache = Null THEN response ELSE reply
  /\ llmCalls' = llmCalls + 1
  /\ geminiCalls' = IF cache = Null THEN geminiCalls + 1 ELSE geminiCalls
  /\ UNCHANGED <<scoreVars, matchVars, poolVars, runVars, dbVars, schedVars, parseVars>>

(* the entry is stored with EX: 7 days *)
Expire ==
  /\ cache # Null
  /\ cache' = Null
  /\ UNCHANGED <<reply, llmResult, llmCalls, geminiCalls>>
  /\ UNCHANGED <<scoreVars, matchVars, poolVars, runVars, dbVars, schedVars, parseVars>>

NextLlm == LlmScoreJob \/ Expire

SpecLlm == InitLlm /\ [][NextLlm]_vars

(* C17: whatever text the model replies, the LLM-backed scorer yields a *)
(* ScoredJob whose score is within [0,1] and whose matchReasons list is *)
(* not empty.                                                           *)
C17_LlmScoreWellFormed ==
  (llmResult # Pending /\ ~Threw(llmResult))
    => /\ llmResult.value.score \in 0..ScoreDen
       /\ Len(llmResult.value.matchReasons) >= 1

(* a call of scoreJob *)
LlmCall == llmCalls' = llmCalls + 1

(* C30: a call that finds the pair's key in the cache returns the cached *)
(* score and reasons and does not call Gemini; a call that misses and    *)
(* returns has called Gemini once and leaves its result under the key;   *)
(* so a call that follows a returned call within the entry's lifetime    *)
(* returns the same result.                                              *)
C30_CachedScoreReused ==
  [][LlmCall
       => /\ cache # Null
               => /\ llmResult' = Val([score |-> cache.score,
                                       matchReasons |-> cache.matchReasons] @@ job)
                  /\ geminiCalls' = geminiCalls
                  /\ cache' = cache
          /\ (cache = Null /\ ~Threw(llmResult'))
               => /\ geminiCalls' = geminiCalls + 1
                  /\ cache' # Null
                  /\ cache'.score = llmResult'.value.score
                  /\ cache'.matchReasons = llmResult'.value.matchReasons
          /\ (cache # Null /\ llmResult # Pending /\ ~Threw(llmResult))
               => llmResult' = llmResult]_vars

(* two calls in a row, Gemini asked once *)
C30_Witness ==
  /\ llmCalls = 2
  /\ geminiCalls = 1
  /\ cache # Null
  /\ ~Threw(llmResult)
  /\ llmResult.value.score = cache.score
  /\ llmResult.value.matchReasons = cache.matchReasons
  /\ Len(cache.matchReasons) >= 1

----------------------------------------------------------------------------
(* The search over all roles: GoogleJobSearcher.searchAllRoles applied to *)
(* any résumé and any outcomes of the searches of its roles               *)

(* the URLs a role's search can turn up; the same posting can come up for *)
(* two roles                                                              *)
HitUrls == {"u1", "u2", "u3"}

(* what searchJobsForRole returns for one role: up to MaxHits results of *)
(* distinct URLs                                                         *)
RoleHits ==
  {q \in SeqsUpTo(HitUrls, MaxHits) : \A i, k \in 1..Len(q) : i # k => q[i] # q[k]}

(* searchJobsForRole resolved with its results, or rejected *)
RoleOutcomes == {LimitError} \cup {Val(q) : q \in RoleHits}

InitSearch ==
  /\ clock = 0
  /\ resumeData \in Resumes
  /\ job = NoFields
  /\ result = Pending
  /\ NoBatch
  /\ NoPool
  /\ rpc = "search"
  /\ sessionId = 0
  /\ searchResults = <<>>
  /\ fetched = <<>>
  /\ jobDetails = <<>>
  /\ saved = 0
  /\ topJobIds = <<>>
  /\ thrown = NoError
  /\ dbFault = FALSE
  /\ report = Pending
  /\ feed = <<>>
  /\ roleResults \in [1..Len(RichBody.roles) -> RoleOutcomes]
  /\ NoStore
  /\ NoScheduler
  /\ NoParse
  /\ NoLlm

SearchAllRoles ==
  /\ rpc = "search"
  /\ \E r \in {searchAllRoles(resumeData, roleResults)} :
       IF Threw(r)
       THEN /\ rpc' = "catch"
            /\ thrown' = r
            /\ UNCHANGED <<feed, browser>>
       ELSE /\ rpc' = "fetch"
            /\ feed' = r.value
            /\ browser' = IF Len(resumeData.data.roles) > 0 THEN "open" ELSE browser
            /\ UNCHANGED thrown
  /\ UNCHANGED <<sessionId, searchResults, fetched, jobDetails, saved, topJobIds, dbFault,
                 report, roleResults>>
  /\ UNCHANGED <<contexts, calls, nextCtx>>
  /\ UNCHANGED <<scoreVars, matchVars, dbVars, schedVars, parseVars, llmVars>>

NextSearch == SearchAllRoles

SpecSearch == InitSearch /\ [][NextSearch]_vars

(* the roles whose search resolved *)
resolvedRoles ==
  IF Has(resumeData, "data")
  THEN {i \in 1..Len(resumeData.data.roles) : ~Threw(roleResults[i])}
  ELSE {}

(* where a URL first comes up: the role, then the place in its results *)
firstHit(url) ==
  CHOOSE h \in resolvedRoles \X (1..MaxHits) :
    /\ h[2] <= Len(roleResults[h[1]].value)
    /\ roleResults[h[1]].value[h[2]] = url
    /\ \A i \in resolvedRoles : i < h[1] => \A k \in 1..Len(roleResults[i].value) :
                                               roleResults[i].value[k] # url

comesBefore(g, h) == g[1] < h[1] \/ (g[1] = h[1] /\ g[2] < h[2])

====
